---- MODULE Spec2Model ----
(***************************************************************************)
(* iotop (Rust): the sampling engine of src/process.rs and the counter     *)
(* record of src/taskstats.rs.                                             *)
(*                                                                         *)
(* One run of ProcessList::refresh_processes is one tick.  The scheduler   *)
(* task of ProcessList::spawn_refresh_stream runs a tick on a worker with  *)
(* a copy of its state, and on success commits the copy and sends a        *)
(* snapshot.  u64 counters are kept in the range 0..U64Max; the kernel     *)
(* replies, the /proc listings and the /proc/vmstat contents are inputs.   *)
(***************************************************************************)
EXTENDS Integers, Sequences, FiniteSets, TLC

VARIABLES
    processes,        \* scheduler task: HashMap<i32, ProcessInfo>
    prev_pgpgin,      \* scheduler task: Option<u64>, bytes
    prev_pgpgout,     \* scheduler task: Option<u64>, bytes
    show_processes,   \* argument of spawn_refresh_stream
    pids,             \* PID allow-list (with_pids), empty when not given
    uids,             \* UID allow-list (with_uids), empty when not given
    conn_poisoned,    \* the Mutex around TaskStatsConnection is poisoned
    HAS_DELAY_ACCT,   \* static AtomicBool of taskstats.rs
    timestamp,        \* scheduler task: Instant of the last committed tick
    duration,         \* scheduler task: time between the last two of them
    snapshot,         \* Option<ProcessSnapshot>: the last one given to tx.send
    sent,             \* number of snapshots given to tx.send
    ticks,            \* number of timer ticks taken, counted up to MaxTicks
    pc,               \* scheduler task: "select", "await" (worker) or "done"
    worker,           \* Option: the temp_list of the spawn_blocking in flight
    cancelled,        \* the CancellationToken is tripped
    rx,               \* receiver: "open", "closed" (recv gave None), "dropped"
    queue,            \* content of the unbounded channel, oldest first
    current_snapshot, \* consumer: the queue entry that recv() gave last
    recv_count,       \* consumer: number of snapshots received
    last_in,          \* what the last tick read from the kernel and /proc
    unit,             \* operands and result of one call on a record or entry
    conv,             \* each thread in from_kernel_stats: its sample and step
    flag_reads,       \* what the calls of has_delay_acct() returned, in order
    cache,            \* ProcCache.cache: HashMap<PathBuf, CacheEntry>
    clock,            \* Instant::now()
    disk,             \* content of the files under /proc, None when unreadable
    cache_ret,        \* the last ProcCache::read: its arguments and result
    main,             \* run_batch_mode / run_interactive_mode: args and locals
    sched,            \* the scheduler tasks spawned so far, old and new
    conn_lock,        \* the Mutex of the shared TaskStatsConnection: its holder
    ui                \* UIState and the has_delay_acct the key handler uses

vars == <<processes, prev_pgpgin, prev_pgpgout, timestamp, duration,
          show_processes, pids, uids, conn_poisoned, HAS_DELAY_ACCT, snapshot,
          sent, ticks, pc, worker, cancelled, rx, queue, current_snapshot,
          recv_count, last_in, unit, conv, flag_reads, cache, clock, disk,
          cache_ret, main, sched, conn_lock, ui>>

\* the flag's threads, the /proc cache and the entry point
aux_vars == <<conv, flag_reads, cache, clock, disk, cache_ret, main, sched,
              conn_lock, ui>>

\* the cancellation token, the channel and the consumer
stream_vars == <<pc, worker, cancelled, rx, queue, current_snapshot, recv_count>>

(***************************************************************************)
(* Bounds                                                                  *)
(***************************************************************************)
\* u64::MAX, scaled so that sums and products stay inside TLC's integers
U64Max == 8388607

\* number of timer ticks explored
MaxTicks == 3

\* 4 KiB pages (read_vmstat)
PageSize == 4096

\* thread-group ids that /proc may list
Pids == {1}

\* thread ids that /proc/<tgid>/task may list
TaskTids(tgid) == {tgid, tgid + 2}

(***************************************************************************)
(* Option<T>                                                               *)
(***************************************************************************)
None == <<>>

Some(x) == <<x>>

is_some(o) == o /= <<>>

unwrap(o) == o[1]

(***************************************************************************)
(* u64 arithmetic                                                          *)
(***************************************************************************)
saturating_sub(a, b) == IF a >= b THEN a - b ELSE 0

saturating_add(a, b) == IF a + b > U64Max THEN U64Max ELSE a + b

\* a + b and a * b of a build without overflow checks
wrapping_add(a, b) == (a + b) % (U64Max + 1)

wrapping_mul(a, b) == (a * b) % (U64Max + 1)

(***************************************************************************)
(* TaskStats (taskstats.rs)                                                *)
(***************************************************************************)
Counters == {"blkio_delay_total", "swapin_delay_total", "read_bytes",
             "write_bytes", "cancelled_write_bytes"}

TaskStats_default ==
    [version |-> 0, blkio_delay_total |-> 0, swapin_delay_total |-> 0,
     read_bytes |-> 0, write_bytes |-> 0, cancelled_write_bytes |-> 0]

from_kernel_stats(stats) ==
    [version |-> 0,
     blkio_delay_total |-> stats.blkio_delay_total,
     swapin_delay_total |-> stats.swapin_delay_total,
     read_bytes |-> stats.read_bytes,
     write_bytes |-> stats.write_bytes,
     cancelled_write_bytes |-> stats.cancelled_write_bytes]

\* what client.pid_stats(tid) can give: the kernel's record, an error
\* because the task is gone (ESRCH), or an error of the netlink transport
PidStatsKinds == {"ok", "esrch", "transport"}

\* TaskStatsConnection::get_task_stats on the client's answer: a
\* Result<Option<TaskStats>>
get_task_stats(reply) ==
    IF reply.kind = "ok"
    THEN [ok |-> TRUE, value |-> Some(from_kernel_stats(reply.stats))]
    ELSE [ok |-> TRUE, value |-> None]

\* the flag after from_kernel_stats(stats) when it was flag before
delay_acct_after(flag, stats) ==
    IF ~flag /\ stats.blkio_delay_total /= 0 THEN TRUE ELSE flag

is_all_zero(self) ==
    /\ self.blkio_delay_total = 0
    /\ self.swapin_delay_total = 0
    /\ self.read_bytes = 0
    /\ self.write_bytes = 0
    /\ self.cancelled_write_bytes = 0

\* delta with a plain (wrapping) subtraction on read_bytes
delta_wrapping(self, other) ==
    [version |-> self.version,
     blkio_delay_total |->
         saturating_sub(self.blkio_delay_total, other.blkio_delay_total),
     swapin_delay_total |->
         saturating_sub(self.swapin_delay_total, other.swapin_delay_total),
     read_bytes |-> (self.read_bytes - other.read_bytes) % (U64Max + 1),
     write_bytes |-> saturating_sub(self.write_bytes, other.write_bytes),
     cancelled_write_bytes |->
         saturating_sub(self.cancelled_write_bytes, other.cancelled_write_bytes)]

delta(self, other) ==
    [version |-> self.version,
     blkio_delay_total |->
         saturating_sub(self.blkio_delay_total, other.blkio_delay_total),
     swapin_delay_total |->
         saturating_sub(self.swapin_delay_total, other.swapin_delay_total),
     read_bytes |-> saturating_sub(self.read_bytes, other.read_bytes),
     write_bytes |-> saturating_sub(self.write_bytes, other.write_bytes),
     cancelled_write_bytes |->
         saturating_sub(self.cancelled_write_bytes, other.cancelled_write_bytes)]

\* accumulate that takes swapin_delay_total from the block-I/O delays
accumulate_pasted(self, d) ==
    [version |-> self.version,
     blkio_delay_total |->
         saturating_add(self.blkio_delay_total, d.blkio_delay_total),
     swapin_delay_total |->
         saturating_add(self.blkio_delay_total, d.blkio_delay_total),
     read_bytes |-> saturating_add(self.read_bytes, d.read_bytes),
     write_bytes |-> saturating_add(self.write_bytes, d.write_bytes),
     cancelled_write_bytes |->
         saturating_add(self.cancelled_write_bytes, d.cancelled_write_bytes)]

\* the value of self after self.accumulate(d)
accumulate(self, d) ==
    [version |-> self.version,
     blkio_delay_total |->
         saturating_add(self.blkio_delay_total, d.blkio_delay_total),
     swapin_delay_total |->
         saturating_add(self.swapin_delay_total, d.swapin_delay_total),
     read_bytes |-> saturating_add(self.read_bytes, d.read_bytes),
     write_bytes |-> saturating_add(self.write_bytes, d.write_bytes),
     cancelled_write_bytes |->
         saturating_add(self.cancelled_write_bytes, d.cancelled_write_bytes)]

(***************************************************************************)
(* ThreadInfo (process.rs)                                                 *)
(***************************************************************************)
\* new that starts from an all-zero total instead of None
ThreadInfo_new_zero_total(tid) ==
    [tid |-> tid, stats_total |-> Some(TaskStats_default),
     stats_delta |-> TaskStats_default]

ThreadInfo_new(tid) ==
    [tid |-> tid, stats_total |-> None, stats_delta |-> TaskStats_default]

\* update_stats that takes a missing stats_total for an all-zero one
ThreadInfo_update_stats_zero_base(self, stats) ==
    [self EXCEPT
        !.stats_delta = IF is_some(self.stats_total)
                        THEN delta(stats, unwrap(self.stats_total))
                        ELSE delta(stats, TaskStats_default),
        !.stats_total = Some(stats)]

\* the value of self after self.update_stats(stats)
ThreadInfo_update_stats(self, stats) ==
    [self EXCEPT
        !.stats_delta = IF is_some(self.stats_total)
                        THEN delta(stats, unwrap(self.stats_total))
                        ELSE @,
        !.stats_total = Some(stats)]

(***************************************************************************)
(* ProcessInfo (process.rs)                                                *)
(***************************************************************************)
EmptyMap == [x \in {} |-> 0]

ProcessInfo_new(pid) ==
    [pid |-> pid, tid |-> pid, uid |-> None, user |-> None, prio |-> None,
     cmdline |-> None, threads |-> EmptyMap,
     stats_delta |-> TaskStats_default, stats_accum |-> TaskStats_default]

\* a String is the sequence of its characters; format!("{}", n)
DigitChars == <<"0", "1", "2", "3", "4", "5", "6", "7", "8", "9">>

RECURSIVE format_u32(_)
format_u32(n) ==
    IF n < 10 THEN <<DigitChars[n + 1]>>
    ELSE format_u32(n \div 10) \o <<DigitChars[(n % 10) + 1]>>

\* s.chars().take(8).collect() when s.len() > 8, s otherwise
truncate8(s) == IF Len(s) > 8 THEN SubSeq(s, 1, 8) ELSE s

\* compute_user: passwd is User::from_uid(uid).ok().flatten().map(|u| u.name)
compute_user(self, passwd) ==
    LET user_str == IF is_some(self.uid)
                    THEN IF is_some(passwd[unwrap(self.uid)])
                         THEN unwrap(passwd[unwrap(self.uid)])
                         ELSE format_u32(unwrap(self.uid))
                    ELSE format_u32(0)
    IN  truncate8(user_str)

update_user(self, passwd) ==
    IF ~is_some(self.user)
    THEN [self EXCEPT !.user = Some(compute_user(self, passwd))]
    ELSE self

\* compute_prio: nice is field 18 of /proc/<tid>/stat, None when the file
\* cannot be read or has fewer than 18 fields
compute_prio(nice) ==
    IF is_some(nice)
    THEN <<"b", "e", "/">> \o format_u32((20 - unwrap(nice)) \div 5)
    ELSE <<"b", "e", "/", "4">>

update_prio(self, nice) ==
    IF ~is_some(self.prio) THEN [self EXCEPT !.prio = Some(compute_prio(nice))]
    ELSE self

\* update_cmdline: computed is what compute_cmdline builds in this tick from
\* /proc/<pid>/cmdline and the status files
update_cmdline(self, computed) ==
    IF ~is_some(self.cmdline) THEN [self EXCEPT !.cmdline = Some(computed)]
    ELSE self

\* the user database: uid 0 is root, uid 1000 has no entry
Uids == {0, 1000}

Passwd == (0 :> Some(<<"r", "o", "o", "t">>)) @@ (1000 :> None)

\* u32::MAX; TLC's largest integer stands for it
u32_MAX == 2147483647

\* the "Uid" and "Tgid" steps of refresh_processes and the three cache
\* updates after them; m is what /proc gives for the process in this tick
update_metadata(process, tgid, m, passwd) ==
    LET with_uid ==
            IF is_some(m.uid)
            THEN [process EXCEPT
                    !.user = IF unwrap(m.uid) /=
                                  (IF is_some(process.uid) THEN unwrap(process.uid)
                                   ELSE u32_MAX)
                               THEN None ELSE @,
                    !.uid = Some(unwrap(m.uid))]
            ELSE process
        with_pid == [with_uid EXCEPT !.pid = tgid]
    IN  update_prio(update_user(update_cmdline(with_pid, m.cmdline), passwd), m.nice)

\* ascending sequence of the elements of a finite set of integers
RECURSIVE SortedSeq(_)
SortedSeq(S) ==
    IF S = {} THEN <<>>
    ELSE LET m == CHOOSE x \in S : \A y \in S : x <= y
         IN  <<m>> \o SortedSeq(S \ {m})

\* the loop "for thread in self.threads.values() { stats_delta.accumulate }"
RECURSIVE AccumulateThreads(_, _, _)
AccumulateThreads(threads, tids, acc) ==
    IF tids = <<>> THEN acc
    ELSE AccumulateThreads(threads, Tail(tids),
                           accumulate(acc, threads[Head(tids)].stats_delta))

\* update_stats that sums the delays without averaging them
ProcessInfo_update_stats_no_average(self) ==
    LET num_threads == Cardinality(DOMAIN self.threads)
        stats_delta == AccumulateThreads(self.threads,
                           SortedSeq(DOMAIN self.threads), TaskStats_default)
    IN  IF num_threads = 0
        THEN [self |-> self, ret |-> FALSE]
        ELSE [self |-> [self EXCEPT
                            !.stats_delta = stats_delta,
                            !.stats_accum = accumulate(@, stats_delta)],
              ret |-> TRUE]

\* update_stats that overwrites stats_accum with the tick's delta
ProcessInfo_update_stats_overwrite(self) ==
    LET num_threads == Cardinality(DOMAIN self.threads)
        summed == AccumulateThreads(self.threads, SortedSeq(DOMAIN self.threads),
                                    TaskStats_default)
        stats_delta ==
            [summed EXCEPT
                !.blkio_delay_total = @ \div num_threads,
                !.swapin_delay_total = @ \div num_threads]
    IN  IF num_threads = 0
        THEN [self |-> self, ret |-> FALSE]
        ELSE [self |-> [self EXCEPT
                            !.stats_delta = stats_delta,
                            !.stats_accum = stats_delta],
              ret |-> TRUE]

\* self after self.update_stats(), and the value it returns
ProcessInfo_update_stats(self) ==
    LET num_threads == Cardinality(DOMAIN self.threads)
        summed == AccumulateThreads(self.threads, SortedSeq(DOMAIN self.threads),
                                    TaskStats_default)
        stats_delta ==
            [summed EXCEPT
                !.blkio_delay_total = @ \div num_threads,
                !.swapin_delay_total = @ \div num_threads]
    IN  IF num_threads = 0
        THEN [self |-> self, ret |-> FALSE]
        ELSE [self |-> [self EXCEPT
                            !.stats_delta = stats_delta,
                            !.stats_accum = accumulate(@, stats_delta)],
              ret |-> TRUE]

(***************************************************************************)
(* ProcessList (process.rs)                                                *)
(***************************************************************************)
\* Result<(u64, u64)> of read_vmstat: vm is the content of /proc/vmstat
\* (None when the file cannot be read), as its pgpgin and pgpgout fields
read_vmstat(vm, checks) ==
    IF ~is_some(vm) THEN [kind |-> "err", pgpgin |-> 0, pgpgout |-> 0]
    ELSE LET pgpgin == unwrap(vm).pgpgin
             pgpgout == unwrap(vm).pgpgout
         IN  IF checks /\ (pgpgin * PageSize > U64Max \/ pgpgout * PageSize > U64Max)
             THEN [kind |-> "panic", pgpgin |-> 0, pgpgout |-> 0]
             ELSE [kind |-> "ok",
                   pgpgin |-> wrapping_mul(pgpgin, PageSize),
                   pgpgout |-> wrapping_mul(pgpgout, PageSize)]

\* the loop "for tid in tids" that forgets the total of a thread for which
\* the kernel gives no record
RECURSIVE SampleThreads_forgets(_, _, _, _)
SampleThreads_forgets(tids, st, stats, checks) ==
    IF tids = <<>> \/ st.panicked THEN st
    ELSE
        LET tid == Head(tids)
            threads == IF tid \in DOMAIN st.process.threads
                       THEN st.process.threads
                       ELSE st.process.threads @@ (tid :> ThreadInfo_new(tid))
            entered == [st EXCEPT !.process.threads =
                                     [threads EXCEPT ![tid].stats_total = None]]
        IN  IF st.poisoned \/ ~is_some(stats[tid])
            THEN SampleThreads_forgets(Tail(tids), entered, stats, checks)
            ELSE
                LET sample == from_kernel_stats(unwrap(stats[tid]))
                    thread == ThreadInfo_update_stats(threads[tid], sample)
                    d == thread.stats_delta
                    overflow == \/ st.total_read + d.read_bytes > U64Max
                                \/ st.total_write + d.write_bytes > U64Max
                    flag == delay_acct_after(st.flag, unwrap(stats[tid]))
                IN  IF checks /\ overflow
                    THEN [st EXCEPT !.panicked = TRUE, !.poisoned = TRUE,
                                    !.flag = flag]
                    ELSE SampleThreads_forgets(Tail(tids),
                            [st EXCEPT
                                !.process.threads = [threads EXCEPT ![tid] = thread],
                                !.total_read = wrapping_add(@, d.read_bytes),
                                !.total_write = wrapping_add(@, d.write_bytes),
                                !.flag = flag],
                            stats, checks)

\* the loop "for tid in tids" of refresh_processes on one process entry.
\* st carries the process entry, the running totals, the delay-accounting
\* flag and whether the worker has panicked (with the connection locked).
RECURSIVE SampleThreads(_, _, _, _)
SampleThreads(tids, st, stats, checks) ==
    IF tids = <<>> \/ st.panicked THEN st
    ELSE
        LET tid == Head(tids)
            threads == IF tid \in DOMAIN st.process.threads
                       THEN st.process.threads
                       ELSE st.process.threads @@ (tid :> ThreadInfo_new(tid))
            entered == [st EXCEPT !.process.threads = threads]
        IN  IF st.poisoned \/ ~is_some(stats[tid])
            THEN SampleThreads(Tail(tids), entered, stats, checks)
            ELSE
                LET sample == from_kernel_stats(unwrap(stats[tid]))
                    thread == ThreadInfo_update_stats(threads[tid], sample)
                    d == thread.stats_delta
                    overflow == \/ st.total_read + d.read_bytes > U64Max
                                \/ st.total_write + d.write_bytes > U64Max
                    flag == delay_acct_after(st.flag, unwrap(stats[tid]))
                IN  IF checks /\ overflow
                    THEN [st EXCEPT !.panicked = TRUE, !.poisoned = TRUE,
                                    !.flag = flag]
                    ELSE SampleThreads(Tail(tids),
                            [st EXCEPT
                                !.process.threads = [threads EXCEPT ![tid] = thread],
                                !.total_read = wrapping_add(@, d.read_bytes),
                                !.total_write = wrapping_add(@, d.write_bytes),
                                !.flag = flag],
                            stats, checks)

\* TidsOf without the fallback to [tgid]
TidsOf_no_fallback(tgid, show, tasks) ==
    IF show
    THEN IF is_some(tasks[tgid]) THEN SortedSeq(unwrap(tasks[tgid])) ELSE <<>>
    ELSE <<tgid>>

\* the thread ids sampled for tgid: /proc/<tgid>/task in process mode
\* (fallback [tgid] when it cannot be read), [tgid] alone otherwise
TidsOf(tgid, show, tasks) ==
    IF show
    THEN IF is_some(tasks[tgid]) THEN SortedSeq(unwrap(tasks[tgid])) ELSE <<tgid>>
    ELSE <<tgid>>

\* filters that forget the UID allow-list
passes_filters_pid_only(id, owner, allow_pids, allow_uids) ==
    allow_pids /= {} => id \in allow_pids

\* the filters of the assembler: an entry is kept when its id is in the
\* PID allow-list and its owner's uid in the UID allow-list, an empty list
\* allowing everything; owner is None when the owner cannot be read
passes_filters(id, owner, allow_pids, allow_uids) ==
    /\ allow_pids /= {} => id \in allow_pids
    /\ allow_uids /= {} => (is_some(owner) /\ unwrap(owner) \in allow_uids)

\* map without the entry of key k
without(map, k) == [x \in DOMAIN map \ {k} |-> map[x]]

\* the loop "for entry in entries.flatten()" of refresh_processes; an
\* entry that the filters drop is neither sampled nor kept
RECURSIVE ScanEntries(_, _, _, _, _, _, _, _)
ScanEntries(tgids, st, show, tasks, stats, meta, filters, checks) ==
    IF tgids = <<>> \/ st.panicked THEN st
    ELSE IF ~passes_filters(Head(tgids), meta[Head(tgids)].uid,
                            filters.pids, filters.uids)
    THEN ScanEntries(Tail(tgids),
                     [st EXCEPT !.processes = without(@, Head(tgids))],
                     show, tasks, stats, meta, filters, checks)
    ELSE
        LET tgid == Head(tgids)
            entry == IF tgid \in DOMAIN st.processes
                     THEN st.processes[tgid]
                     ELSE ProcessInfo_new(tgid)
            inner == SampleThreads(TidsOf(tgid, show, tasks),
                        [process |-> [entry EXCEPT !.tid = tgid],
                         total_read |-> st.total_read,
                         total_write |-> st.total_write,
                         flag |-> st.flag,
                         panicked |-> FALSE,
                         poisoned |-> st.poisoned],
                        stats, checks)
            process == update_metadata(ProcessInfo_update_stats(inner.process).self,
                                       tgid, meta[tgid], Passwd)
            map == IF tgid \in DOMAIN st.processes
                   THEN [st.processes EXCEPT ![tgid] = process]
                   ELSE st.processes @@ (tgid :> process)
        IN  ScanEntries(Tail(tgids),
                [processes |-> IF inner.panicked THEN st.processes ELSE map,
                 total_read |-> inner.total_read,
                 total_write |-> inner.total_write,
                 flag |-> inner.flag,
                 panicked |-> inner.panicked,
                 poisoned |-> inner.poisoned],
                show, tasks, stats, meta, filters, checks)

\* self.processes.retain(|_, p| !p.threads.is_empty())
retain_nonempty(map) ==
    [k \in {p \in DOMAIN map : DOMAIN map[p].threads /= {}} |-> map[k]]

\* refresh_processes(&mut self, show): self is [processes, timestamp,
\* duration, prev_pgpgin, prev_pgpgout, pids, uids]; in is what the tick reads: in.now
\* (Instant::now()), in.vm (/proc/vmstat), in.proc (the numeric entries of
\* /proc, None when read_dir fails), in.tasks (the entries of
\* /proc/<tgid>/task), in.stats (the kernel's reply per tid) and in.meta
\* (status, stat and cmdline per tgid).
\* kind is "ok" (Ok), "err" (Err) or "panic".
refresh_processes(self, show, in, flag, poisoned, checks) ==
    LET vm == read_vmstat(in.vm, checks)
        current_pgpgin == IF vm.kind = "ok" THEN vm.pgpgin ELSE 0
        current_pgpgout == IF vm.kind = "ok" THEN vm.pgpgout ELSE 0
        actual_read == IF is_some(self.prev_pgpgin)
                       THEN saturating_sub(current_pgpgin, unwrap(self.prev_pgpgin))
                       ELSE 0
        actual_write == IF is_some(self.prev_pgpgout)
                        THEN saturating_sub(current_pgpgout, unwrap(self.prev_pgpgout))
                        ELSE 0
        after_vm == [self EXCEPT !.duration = in.now - self.timestamp,
                                 !.timestamp = in.now,
                                 !.prev_pgpgin = Some(current_pgpgin),
                                 !.prev_pgpgout = Some(current_pgpgout)]
        scan == ScanEntries(SortedSeq(unwrap(in.proc)),
                    [processes |-> self.processes,
                     total_read |-> 0, total_write |-> 0,
                     flag |-> flag, panicked |-> FALSE, poisoned |-> poisoned],
                    show, in.tasks, in.stats, in.meta,
                    [pids |-> self.pids, uids |-> self.uids], checks)
        none == [kind |-> "panic", self |-> self,
                 total_io |-> <<0, 0>>, actual_io |-> <<0, 0>>,
                 flag |-> flag, poisoned |-> poisoned]
    IN  IF vm.kind = "panic" THEN none
        ELSE IF ~is_some(in.proc)
        THEN [none EXCEPT !.kind = "err", !.self = after_vm]
        ELSE IF scan.panicked
        THEN [none EXCEPT !.flag = scan.flag, !.poisoned = scan.poisoned]
        ELSE [kind |-> "ok",
              self |-> [after_vm EXCEPT !.processes = retain_nonempty(scan.processes)],
              total_io |-> <<scan.total_read, scan.total_write>>,
              actual_io |-> <<actual_read, actual_write>>,
              flag |-> scan.flag, poisoned |-> scan.poisoned]

(***************************************************************************)
(* Ioprio (ioprio.rs)                                                      *)
(***************************************************************************)
IOPRIO_CLASS_SHIFT == 13

\* 1 << n
RECURSIVE Pow2(_)
Pow2(n) == IF n = 0 THEN 1 ELSE 2 * Pow2(n - 1)

IOPRIO_PRIO_MASK == Pow2(IOPRIO_CLASS_SHIFT) - 1

\* a | b and a & b on non-negative words
RECURSIVE BitOr(_, _)
BitOr(a, b) ==
    IF a = 0 THEN b
    ELSE IF b = 0 THEN a
    ELSE (IF a % 2 = 1 \/ b % 2 = 1 THEN 1 ELSE 0) + 2 * BitOr(a \div 2, b \div 2)

RECURSIVE BitAnd(_, _)
BitAnd(a, b) ==
    IF a = 0 \/ b = 0 THEN 0
    ELSE (IF a % 2 = 1 /\ b % 2 = 1 THEN 1 ELSE 0) + 2 * BitAnd(a \div 2, b \div 2)

\* enum IoprioClass and its discriminants (class as u32)
IoprioClass == {"None", "RealTime", "BestEffort", "Idle"}

class_as_u32(class) ==
    CASE class = "None" -> 0
      [] class = "RealTime" -> 1
      [] class = "BestEffort" -> 2
      [] class = "Idle" -> 3

\* the class of each discriminant
IoprioClass_classes == <<"RealTime", "BestEffort", "Idle">>

\* IoprioClass::from_u32: Option<IoprioClass>
IoprioClass_from_u32(val) ==
    CASE val = 0 -> Some("None")
      [] val = 1 -> Some("RealTime")
      [] val = 2 -> Some("BestEffort")
      [] val = 3 -> Some("Idle")
      [] OTHER -> None

Ioprio_new(class, data) == [class |-> class, data |-> data]

\* from_raw that shifts the class down by one bit too few
Ioprio_from_raw_short_shift(ioprio) ==
    LET class_val == BitAnd(ioprio \div Pow2(IOPRIO_CLASS_SHIFT - 1), 7)
        data == BitAnd(ioprio, IOPRIO_PRIO_MASK)
        class == IF is_some(IoprioClass_from_u32(class_val))
                 THEN unwrap(IoprioClass_from_u32(class_val))
                 ELSE "None"
    IN  [class |-> class, data |-> data]

\* the words modelled are below 2^31, where "as u32" and "as i32" keep the
\* value
Ioprio_from_raw(ioprio) ==
    LET class_val == BitAnd(ioprio \div Pow2(IOPRIO_CLASS_SHIFT), 7)
        data == BitAnd(ioprio, IOPRIO_PRIO_MASK)
        class == IF is_some(IoprioClass_from_u32(class_val))
                 THEN unwrap(IoprioClass_from_u32(class_val))
                 ELSE "None"
    IN  [class |-> class, data |-> data]

Ioprio_to_raw(self) ==
    BitOr(class_as_u32(self.class) * Pow2(IOPRIO_CLASS_SHIFT), self.data)

\* IoprioClass::as_str
class_as_str(class) ==
    CASE class = "None" -> <<"n", "o", "n", "e">>
      [] class = "RealTime" -> <<"r", "t">>
      [] class = "BestEffort" -> <<"b", "e">>
      [] class = "Idle" -> <<"i", "d", "l", "e">>

\* impl Display for Ioprio
Ioprio_to_string(self) ==
    CASE self.class = "None" -> <<"n", "o", "n", "e">>
      [] self.class = "Idle" -> <<"i", "d", "l", "e">>
      [] OTHER -> class_as_str(self.class) \o <<"/">> \o format_u32(self.data)

\* s.split_once('/'): the parts before and after the first '/'
split_once_slash(s) ==
    IF \E i \in 1..Len(s) : s[i] = "/"
    THEN LET i == CHOOSE k \in 1..Len(s) :
                     s[k] = "/" /\ \A j \in 1..(k - 1) : s[j] /= "/"
         IN  Some(<<SubSeq(s, 1, i - 1), SubSeq(s, i + 1, Len(s))>>)
    ELSE None

is_digit(c) == \E i \in 1..10 : DigitChars[i] = c

digit_value(c) == (CHOOSE i \in 1..10 : DigitChars[i] = c) - 1

RECURSIVE digits_value(_)
digits_value(s) ==
    IF s = <<>> THEN 0
    ELSE digits_value(SubSeq(s, 1, Len(s) - 1)) * 10 + digit_value(s[Len(s)])

\* str::parse::<u32>(): one '+' may come before the digits, a '-' may not,
\* and there is at least one digit; the strings modelled have fewer than
\* ten characters, so that the value is below u32::MAX
parse_u32(s) ==
    LET digits == IF s /= <<>> /\ s[1] = "+" THEN Tail(s) ELSE s
    IN  IF digits = <<>> \/ \E i \in 1..Len(digits) : ~is_digit(digits[i])
        THEN None
        ELSE Some(digits_value(digits))

\* from_string that rejects level 7
Ioprio_from_string_below_7(s) ==
    IF s = <<"i", "d", "l", "e">> THEN Some(Ioprio_new("Idle", 0))
    ELSE IF ~is_some(split_once_slash(s)) THEN None
    ELSE LET class_str == unwrap(split_once_slash(s))[1]
             data == parse_u32(unwrap(split_once_slash(s))[2])
         IN  IF class_str \notin {<<"r", "t">>, <<"b", "e">>} THEN None
             ELSE IF ~is_some(data) THEN None
             ELSE IF unwrap(data) >= 7 THEN None
             ELSE Some(Ioprio_new(IF class_str = <<"r", "t">> THEN "RealTime"
                                  ELSE "BestEffort", unwrap(data)))

\* Ioprio::from_string: Result<Ioprio>, None for Err
Ioprio_from_string(s) ==
    IF s = <<"i", "d", "l", "e">> THEN Some(Ioprio_new("Idle", 0))
    ELSE IF ~is_some(split_once_slash(s)) THEN None
    ELSE LET class_str == unwrap(split_once_slash(s))[1]
             data == parse_u32(unwrap(split_once_slash(s))[2])
         IN  IF class_str \notin {<<"r", "t">>, <<"b", "e">>} THEN None
             ELSE IF ~is_some(data) THEN None
             ELSE IF unwrap(data) > 7 THEN None
             ELSE Some(Ioprio_new(IF class_str = <<"r", "t">> THEN "RealTime"
                                  ELSE "BestEffort", unwrap(data)))

\* a / b of Rust for b > 0: the quotient rounded toward zero
div_trunc(a, b) == IF a >= 0 THEN a \div b ELSE -((-a) \div b)

\* Ord::clamp
clamp(x, lo, hi) == IF x < lo THEN lo ELSE IF x > hi THEN hi ELSE x

\* libc::SCHED_FIFO, SCHED_RR and SCHED_IDLE on Linux
SCHED_FIFO == 1

SCHED_RR == 2

SCHED_IDLE == 5

\* get_ioprio_from_sched: policy is what sched_getscheduler(pid) returns,
\* nice what getpriority(PRIO_PROCESS, pid) returns; None for Err
get_ioprio_from_sched(policy, nice) ==
    IF policy < 0 THEN None
    ELSE Some(Ioprio_new(IF policy \in {SCHED_FIFO, SCHED_RR} THEN "RealTime"
                         ELSE IF policy = SCHED_IDLE THEN "Idle"
                         ELSE "BestEffort",
                         clamp(div_trunc(nice + 20, 5), 0, 7)))

\* get_ioprio that returns whatever word the syscall gave
get_ioprio_any_class(result, policy, nice) ==
    IF result < 0 THEN get_ioprio_from_sched(policy, nice)
    ELSE Some(Ioprio_from_raw(result))

\* get_ioprio: result is what the ioprio_get syscall returns; None for Err
get_ioprio(result, policy, nice) ==
    IF result < 0 THEN get_ioprio_from_sched(policy, nice)
    ELSE IF Ioprio_from_raw(result).class = "None"
         THEN get_ioprio_from_sched(policy, nice)
         ELSE Some(Ioprio_from_raw(result))

(***************************************************************************)
(* Command lines and status files (proc_reader.rs, process.rs); a string   *)
(* is the sequence of its characters                                       *)
(***************************************************************************)
\* the character '\0' that ends an argument in /proc/<pid>/cmdline
NUL == "NUL"

\* str::find(c) and str::rfind(c): the first and the last position of c
find(s, c) ==
    IF \E i \in 1..Len(s) : s[i] = c
    THEN Some(CHOOSE i \in 1..Len(s) : s[i] = c /\ \A j \in 1..(i - 1) : s[j] /= c)
    ELSE None

rfind(s, c) ==
    IF \E i \in 1..Len(s) : s[i] = c
    THEN Some(CHOOSE i \in 1..Len(s) :
                 s[i] = c /\ \A j \in (i + 1)..Len(s) : s[j] /= c)
    ELSE None

\* s.split(c).collect(): the pieces between the occurrences of c
RECURSIVE split(_, _)
split(s, c) ==
    IF is_some(find(s, c))
    THEN <<SubSeq(s, 1, unwrap(find(s, c)) - 1)>>
         \o split(SubSeq(s, unwrap(find(s, c)) + 1, Len(s)), c)
    ELSE <<s>>

\* .filter(|s| !s.is_empty())
RECURSIVE non_empty(_)
non_empty(parts) ==
    IF parts = <<>> THEN <<>>
    ELSE IF Head(parts) = <<>> THEN non_empty(Tail(parts))
    ELSE <<Head(parts)>> \o non_empty(Tail(parts))

\* parts.join(" ")
RECURSIVE join(_)
join(parts) ==
    IF parts = <<>> THEN <<>>
    ELSE IF Len(parts) = 1 THEN parts[1]
    ELSE parts[1] \o <<" ">> \o join(Tail(parts))

\* str::trim, for the blank
RECURSIVE trim(_)
trim(s) ==
    IF s = <<>> THEN s
    ELSE IF s[1] = " " THEN trim(Tail(s))
    ELSE IF s[Len(s)] = " " THEN trim(SubSeq(s, 1, Len(s) - 1))
    ELSE s

\* "[name]"
bracketed(name) == <<"[">> \o name \o <<"]">>

\* the basename of ProcReader::parse_cmdline: slash_pos is first.rfind('/')
\* and colon_pos is first.find(':')
reader_basename(first) ==
    IF is_some(rfind(first, "/"))
    THEN IF is_some(find(first, ":"))
            /\ unwrap(find(first, ":")) < unwrap(rfind(first, "/"))
         THEN first
         ELSE SubSeq(first, unwrap(rfind(first, "/")) + 1, Len(first))
    ELSE first

\* ProcReader::parse_cmdline for the main thread (pid = tid)
parse_cmdline(content, thread_name) ==
    IF content /= <<>>
    THEN LET parts == non_empty(split(content, NUL))
         IN  IF parts /= <<>>
             THEN IF Len(parts) > 1
                  THEN reader_basename(parts[1]) \o <<" ">> \o join(Tail(parts))
                  ELSE reader_basename(parts[1])
             ELSE bracketed(thread_name)
    ELSE bracketed(thread_name)

\* ProcessInfo::compute_cmdline for the main thread, the cmdline file read
\* and the status file giving name
compute_cmdline(content, name) ==
    IF content /= <<>>
    THEN LET parts == non_empty(split(content, NUL))
         IN  IF parts /= <<>>
             THEN LET first == IF parts[1][1] = "/"
                               THEN SubSeq(parts[1],
                                           unwrap(rfind(parts[1], "/")) + 1,
                                           Len(parts[1]))
                               ELSE parts[1]
                  IN  trim(join(<<first>> \o Tail(parts)))
             ELSE <<"{", "n", "o", " ", "s", "u", "c", "h", " ", "p", "r",
                    "o", "c", "e", "s", "s", "}">>
    ELSE bracketed(name)

\* str::parse::<i32>(): a '+' or a '-' may come before the digits; the
\* fields modelled are short, so that the value is inside i32
parse_i32(s) ==
    IF s /= <<>> /\ s[1] = "-"
    THEN IF is_some(parse_u32(Tail(s))) /\ Tail(s)[1] /= "+"
         THEN Some(0 - unwrap(parse_u32(Tail(s))))
         ELSE None
    ELSE parse_u32(s)

\* a line of a status file after line.split_once(':') and the trims: its
\* key and the fields of its value that white space separates; a line
\* without ':' has key None
StatusLine(key, fields) == [key |-> key, fields |-> fields]

\* the loop of ProcStatus::parse over the lines: the three locals, and
\* failed once a `?` has returned None
RECURSIVE status_scan(_, _)
status_scan(lines, acc) ==
    IF lines = <<>> \/ acc.failed THEN acc
    ELSE LET line == Head(lines)
             number == IF line.fields = <<>> THEN None
                       ELSE parse_i32(line.fields[1])
         IN  IF line.key = Some("Name")
             THEN status_scan(Tail(lines), [acc EXCEPT !.name = join(line.fields)])
             ELSE IF line.key = Some("Tgid")
             THEN IF is_some(number)
                  THEN status_scan(Tail(lines), [acc EXCEPT !.tgid = unwrap(number)])
                  ELSE [acc EXCEPT !.failed = TRUE]
             ELSE IF line.key = Some("Pid")
             THEN IF is_some(number)
                  THEN status_scan(Tail(lines), [acc EXCEPT !.pid = unwrap(number)])
                  ELSE [acc EXCEPT !.failed = TRUE]
             ELSE status_scan(Tail(lines), acc)

status_locals == [name |-> <<>>, tgid |-> 0, pid |-> 0, failed |-> FALSE]

\* a parse that returns whatever the loop has left in the three locals
ProcStatus_parse_unchecked(lines) ==
    LET acc == status_scan(lines, status_locals)
    IN  IF acc.failed THEN None
        ELSE Some([name |-> acc.name, tgid |-> acc.tgid, pid |-> acc.pid])

\* ProcStatus::parse
ProcStatus_parse(lines) ==
    LET acc == status_scan(lines, status_locals)
    IN  IF acc.failed THEN None
        ELSE IF acc.name = <<>> \/ acc.tgid = 0 \/ acc.pid = 0 THEN None
        ELSE Some([name |-> acc.name, tgid |-> acc.tgid, pid |-> acc.pid])

(***************************************************************************)
(* The sort columns and the state of the UI (ui.rs)                        *)
(***************************************************************************)
\* enum SortColumn, in the order of its variants
SortColumn == <<"Pid", "Prio", "User", "Read", "Write", "Swapin", "Io",
                "Command">>

\* SortColumn::available_columns
available_columns(has_delay_acct) ==
    IF has_delay_acct
    THEN <<"Pid", "Prio", "User", "Read", "Write", "Swapin", "Io", "Command">>
    ELSE <<"Pid", "Prio", "User", "Read", "Write", "Command">>

\* columns.iter().position(|c| c == self), counted from 0
position(columns, c) ==
    IF \E i \in 1..Len(columns) : columns[i] = c
    THEN Some((CHOOSE i \in 1..Len(columns) :
                  columns[i] = c /\ \A j \in 1..(i - 1) : columns[j] /= c) - 1)
    ELSE None

\* a cycle_forward that stays on the last column
cycle_forward_stops(self, has_delay_acct) ==
    LET columns == available_columns(has_delay_acct)
        current_idx == position(columns, self)
    IN  IF is_some(current_idx)
        THEN LET idx == unwrap(current_idx)
                 next_idx == IF idx + 1 = Len(columns) THEN idx ELSE idx + 1
             IN  columns[next_idx + 1]
        ELSE columns[1]

\* SortColumn::cycle_forward (right arrow)
cycle_forward(self, has_delay_acct) ==
    LET columns == available_columns(has_delay_acct)
        current_idx == position(columns, self)
    IN  IF is_some(current_idx)
        THEN LET next_idx == (unwrap(current_idx) + 1) % Len(columns)
             IN  columns[next_idx + 1]
        ELSE columns[1]

\* SortColumn::cycle_backward (left arrow)
cycle_backward(self, has_delay_acct) ==
    LET columns == available_columns(has_delay_acct)
        current_idx == position(columns, self)
    IN  IF is_some(current_idx)
        THEN LET idx == unwrap(current_idx)
                 prev_idx == IF idx = 0 THEN Len(columns) - 1 ELSE idx - 1
             IN  columns[prev_idx + 1]
        ELSE columns[1]

\* impl Default for UIState
UIState_default ==
    [only_active |-> FALSE, accumulated |-> FALSE, sort_column |-> "Io",
     sort_reverse |-> TRUE, paused |-> FALSE]

(***************************************************************************)
(* What a tick can read                                                    *)
(***************************************************************************)
\* kernel replies to pid_stats; KZero is that of a task that has done no I/O
KZero == [blkio_delay_total |-> 0, swapin_delay_total |-> 0,
          read_bytes |-> 0, write_bytes |-> 0, cancelled_write_bytes |-> 0]

KSmall == [blkio_delay_total |-> 1000000, swapin_delay_total |-> 1,
           read_bytes |-> 4096, write_bytes |-> 0, cancelled_write_bytes |-> 0]

KLarge == [blkio_delay_total |-> 3000000, swapin_delay_total |-> 0,
           read_bytes |-> U64Max, write_bytes |-> 4096,
           cancelled_write_bytes |-> 4096]

KernelReplies == {None, Some(KSmall), Some(KLarge)}

\* pgpgin and pgpgout of /proc/vmstat, in pages; the last one does not fit
\* in a u64 once multiplied by the page size
VmReads == {None,
            Some([pgpgin |-> 1000, pgpgout |-> 500]),
            Some([pgpgin |-> 1100, pgpgout |-> 520]),
            Some([pgpgin |-> (U64Max \div PageSize) + 1, pgpgout |-> 0])}

ProcReads == {None} \cup {Some(S) : S \in SUBSET Pids}

\* what /proc gives for one process in one tick: the first field of the
\* Uid line of its status (None when status cannot be read), the nice
\* field of its stat, and the command line built from cmdline and status
MetaReads ==
    {[uid |-> u, nice |-> f[1], cmdline |-> f[2]] :
        u \in {None} \cup {Some(v) : v \in Uids},
        f \in {<<Some(0), "bash">>, <<Some(5), "vim">>}}

\* a root process at nice 0 that never changes
MetaPlain == [uid |-> Some(0), nice |-> Some(0), cmdline |-> "bash"]

\* listings of /proc/<tgid>/task for the listed tgids
TaskReads(tgids, show) ==
    IF show
    THEN {t \in [tgids -> {None} \cup
                          {Some(S) : S \in UNION {SUBSET TaskTids(p) : p \in Pids}}] :
            \A p \in tgids : is_some(t[p]) =>
                unwrap(t[p]) \in {{}, {p}, TaskTids(p)}}
    ELSE {[p \in tgids |-> None]}

\* the tids whose statistics the tick asks the kernel for
Queried(tgids, show, tasks, poisoned) ==
    IF poisoned THEN {}
    ELSE UNION {{TidsOf(p, show, tasks)[i] :
                    i \in 1..Len(TidsOf(p, show, tasks))} : p \in tgids}

NoInput == [kind |-> "none", vm |-> None, proc |-> None, tasks |-> EmptyMap,
            stats |-> EmptyMap]

\* the tids for which the last tick got a record from the kernel
Sampled == DOMAIN last_in.stats

NoCall == [op |-> "none", a |-> TaskStats_default, b |-> TaskStats_default,
           r |-> TaskStats_default, proc |-> ProcessInfo_new(1),
           proc_r |-> ProcessInfo_new(1), ret |-> FALSE,
           io |-> Ioprio_new("None", 0), raw |-> 0,
           io_r |-> Ioprio_new("None", 0), s |-> <<>>, shown |-> <<>>,
           parsed |-> None, result |-> -1, policy |-> -1, nice |-> 0,
           got |-> None, prio |-> None,
           reply |-> [kind |-> "none", stats |-> KZero],
           task_stats |-> [ok |-> FALSE, value |-> None],
           tokens |-> <<>>, content |-> <<>>, cmd_reader |-> <<>>,
           cmd_process |-> <<>>, lines |-> <<>>, status |-> None,
           column |-> "none", has_delay_acct |-> FALSE, forward |-> "Pid",
           backward |-> "Pid", there_and_back |-> "Pid",
           back_and_there |-> "Pid", around |-> "Pid"]

\* no thread in from_kernel_stats, an empty cache, the entry point not run
NoMain == [mode |-> "none", iterations |-> None, pc |-> "loop", iteration |-> 0,
           refreshes |-> 0, sleeps |-> 0, draws |-> 0, paused |-> FALSE,
           events |-> <<>>, exit_by |-> "none"]

\* io::Result<String>
io_Ok(content) == [ok |-> TRUE, content |-> content]

io_Err == [ok |-> FALSE, content |-> ""]

NoRead == [path |-> "", ttl |-> "none", result |-> io_Err, from_disk |-> FALSE,
           at |-> 0]

\* no scheduler task spawned, the connection free, the UI not started
NoUi == [started |-> FALSE, pc |-> "start", has_delay_acct |-> FALSE,
         state |-> UIState_default, current_snapshot |-> None, held |-> FALSE,
         events |-> <<>>, received |-> 0, last_draw |-> None]

UiIdle ==
    /\ sched = EmptyMap
    /\ conn_lock = 0
    /\ ui = NoUi

AuxIdle ==
    /\ conv = EmptyMap
    /\ flag_reads = <<>>
    /\ cache = EmptyMap
    /\ clock = 0
    /\ disk = EmptyMap
    /\ cache_ret = NoRead
    /\ UiIdle
    /\ main = NoMain

(***************************************************************************)
(* The scheduler task of spawn_refresh_stream                              *)
(***************************************************************************)
\* the scheduler at its select!, the channel empty, the receiver held
StreamIdle ==
    /\ pc = "select"
    /\ worker = None
    /\ cancelled = FALSE
    /\ rx = "open"
    /\ queue = <<>>
    /\ current_snapshot = None
    /\ recv_count = 0

Init ==
    /\ processes = EmptyMap
    /\ prev_pgpgin = None
    /\ prev_pgpgout = None
    /\ timestamp = 0
    /\ duration = 0
    /\ show_processes \in BOOLEAN
    /\ pids = {}
    /\ uids = {}
    /\ conn_poisoned = FALSE
    /\ HAS_DELAY_ACCT = FALSE
    /\ snapshot = None
    /\ sent = 0
    /\ ticks = 0
    /\ StreamIdle
    /\ last_in = NoInput
    /\ unit = NoCall
    /\ AuxIdle

\* what the worker's call of refresh_processes can come to: an addition or
\* multiplication that overflows panics in a build with overflow checks and
\* wraps in one without; the two builds differ in nothing else
Outcomes(self, show, in, flag, poisoned) ==
    LET checked == refresh_processes(self, show, in, flag, poisoned, TRUE)
    IN  IF checked.kind = "panic"
        THEN {checked, refresh_processes(self, show, in, flag, poisoned, FALSE)}
        ELSE {checked}

\* the match on the worker's result that commits on every result
committed_always(carried, res) == res.self

\* the match on the worker's result: the scheduler's state after it
committed(carried, res) == IF res.kind = "ok" THEN res.self ELSE carried

\* the scheduler's own state, as the worker's temp_list takes it
Carried ==
    [processes |-> processes, timestamp |-> timestamp, duration |-> duration,
     prev_pgpgin |-> prev_pgpgin, prev_pgpgout |-> prev_pgpgout,
     pids |-> pids, uids |-> uids]

\* the tick arm of the select! after the worker has returned res: commit
\* and give a snapshot to tx.send on Ok(Ok(..)), continue otherwise
CommitTick(in, res) ==
    LET new == committed(Carried, res)
    IN  /\ ticks' = IF ticks < MaxTicks THEN ticks + 1 ELSE ticks
        /\ HAS_DELAY_ACCT' = res.flag
        /\ conn_poisoned' = res.poisoned
        /\ last_in' = IF res.kind = "ok"
                      THEN [kind |-> "ok", vm |-> in.vm, proc |-> in.proc,
                            tasks |-> IF in.listed THEN in.tasks ELSE EmptyMap,
                            stats |-> [t \in {u \in DOMAIN in.stats :
                                                is_some(in.stats[u])}
                                         |-> unwrap(in.stats[t])]]
                      ELSE [NoInput EXCEPT !.kind = res.kind]
        /\ processes' = new.processes
        /\ prev_pgpgin' = new.prev_pgpgin
        /\ prev_pgpgout' = new.prev_pgpgout
        /\ timestamp' = new.timestamp
        /\ duration' = new.duration
        /\ IF res.kind = "ok"
           THEN /\ snapshot' = Some([processes |-> new.processes,
                                     total_io |-> res.total_io,
                                     actual_io |-> res.actual_io,
                                     duration |-> new.duration])
                /\ sent' = sent + 1
           ELSE UNCHANGED <<snapshot, sent>>
        /\ UNCHANGED <<show_processes, pids, uids, unit>>
        /\ UNCHANGED <<conv, flag_reads, cache, clock, disk, cache_ret, sched,
                       conn_lock, ui>>

\* a whole tick in one step, its snapshot taken by the consumer at once
Commit(in, res) ==
    /\ CommitTick(in, res)
    /\ UNCHANGED stream_vars
    /\ UNCHANGED main

\* tx.send(snapshot): Err when the receiver is gone, and then break
Deliver(in, res) ==
    /\ CommitTick(in, res)
    /\ worker' = None
    /\ IF res.kind = "ok" /\ rx = "dropped"
       THEN pc' = "done" /\ queue' = queue
       ELSE /\ pc' = "select"
            /\ queue' = IF res.kind = "ok"
                         THEN Append(queue, [snapshot |-> unwrap(snapshot'),
                                             seq |-> sent', tick |-> ticks'])
                         ELSE queue
    /\ UNCHANGED <<cancelled, rx, current_snapshot, recv_count>>
    /\ UNCHANGED main

\* the check of the iteration limit that ends the loop only above the limit
check_limit_above(m, next) ==
    IF is_some(m.iterations)
    THEN IF m.iteration + 1 > unwrap(m.iterations)
         THEN [m EXCEPT !.iteration = @ + 1, !.pc = "done", !.exit_by = "limit"]
         ELSE [m EXCEPT !.iteration = @ + 1, !.pc = next]
    ELSE [m EXCEPT !.pc = next]

\* `if let Some(max_iter) = args.iterations { iteration += 1; if iteration
\* >= max_iter { break; } }` at the end of a pass of either loop; next is
\* where the loop goes on when it does not break
check_limit(m, next) ==
    IF is_some(m.iterations)
    THEN IF m.iteration + 1 >= unwrap(m.iterations)
         THEN [m EXCEPT !.iteration = @ + 1, !.pc = "done", !.exit_by = "limit"]
         ELSE [m EXCEPT !.iteration = @ + 1, !.pc = next]
    ELSE [m EXCEPT !.pc = next]

\* one pass of the loop of run_batch_mode up to the sleep: the refresh on
\* the list itself, `?` on its error (a panic ends the process as well),
\* the report on stdout, where a failed write returns Ok(()), and the
\* check of the iteration limit
BatchStep(in, res) ==
    /\ CommitTick(in, res)
    /\ UNCHANGED stream_vars
    /\ LET m == [main EXCEPT !.refreshes = @ + 1]
       IN  IF res.kind /= "ok"
           THEN main' = [m EXCEPT !.pc = "done", !.exit_by = "error"]
           ELSE \E written \in BOOLEAN :
                   main' = IF written THEN check_limit(m, "sleep")
                           ELSE [m EXCEPT !.pc = "done", !.exit_by = "stdout"]

\* what a tick reads, drawn from the given sets, what the worker makes of
\* it from the copy base, and the scheduler's match on the result, with
\* the token, the channel and the consumer left out (atomic) or with
\* tx.send on the channel; in batch mode the refresh is the loop's own; listed says that the content of
\* /proc/<tgid>/task is drawn in thread mode too, where the code does not
\* read it, and is kept in last_in
OnReads(vms, procs, replies, metas, listed, base, atomic) ==
    \E vm \in vms, proc \in procs :
        LET tgids == IF is_some(proc) THEN unwrap(proc) ELSE {}
        IN  \E tasks \in TaskReads(tgids, show_processes \/ listed) :
            \E stats \in [Queried(tgids, show_processes, tasks, conn_poisoned)
                            -> replies] :
            \E meta \in [tgids -> metas] :
                LET in == [now |-> ticks + 1, vm |-> vm, proc |-> proc,
                           tasks |-> tasks, stats |-> stats, meta |-> meta,
                           listed |-> listed]
                IN  \E res \in Outcomes(base, show_processes, in,
                                        HAS_DELAY_ACCT, conn_poisoned) :
                        IF ~atomic THEN Deliver(in, res)
                        ELSE IF main.mode = "batch" THEN BatchStep(in, res)
                        ELSE Commit(in, res)

\* one tick whose reads are drawn from the given sets
TickOn(vms, replies, metas, listed) ==
    /\ ticks < MaxTicks
    /\ OnReads(vms, ProcReads, replies, metas, listed, Carried, TRUE)

SchedulerTick == TickOn(VmReads, KernelReplies, {MetaPlain}, FALSE)

Next == SchedulerTick

Spec == Init /\ [][Next]_vars

(***************************************************************************)
(* The assembler on changing /proc contents and with allow-lists           *)
(***************************************************************************)
\* allow-lists given on the command line
PidLists == {{}, {1}, {3}}

UidLists == {{}, {1000}}

ScanInit ==
    /\ processes = EmptyMap
    /\ prev_pgpgin = None
    /\ prev_pgpgout = None
    /\ timestamp = 0
    /\ duration = 0
    /\ show_processes \in BOOLEAN
    /\ pids \in PidLists
    /\ uids \in UidLists
    /\ conn_poisoned = FALSE
    /\ HAS_DELAY_ACCT = FALSE
    /\ snapshot = None
    /\ sent = 0
    /\ ticks = 0
    /\ StreamIdle
    /\ last_in = NoInput
    /\ unit = NoCall
    /\ AuxIdle

\* a tick in which the kernel counters do not move, and every listing,
\* owner, nice value and command line may
ScanTick ==
    TickOn({Some([pgpgin |-> 1000, pgpgout |-> 500])}, {None, Some(KSmall)},
           MetaReads, TRUE)

ScanNext == ScanTick

SpecScan == ScanInit /\ [][ScanNext]_vars

(***************************************************************************)
(* The scheduler task step by step, the cancellation token, the channel    *)
(* and the consumer                                                        *)
(***************************************************************************)
StreamVms == {Some([pgpgin |-> 1000, pgpgout |-> 500]),
              Some([pgpgin |-> (U64Max \div PageSize) + 1, pgpgout |-> 0])}

\* /proc as the worker finds it; once MaxTicks ticks are counted only runs
\* that fail on /proc are followed, which leave the scheduler's state alone
StreamProcs == IF ticks < MaxTicks THEN {None, Some({1})} ELSE {None}

StreamInit ==
    /\ processes = EmptyMap
    /\ prev_pgpgin = None
    /\ prev_pgpgout = None
    /\ timestamp = 0
    /\ duration = 0
    /\ show_processes = FALSE
    /\ pids = {}
    /\ uids = {}
    /\ conn_poisoned = FALSE
    /\ HAS_DELAY_ACCT = FALSE
    /\ snapshot = None
    /\ sent = 0
    /\ ticks = 0
    /\ StreamIdle
    /\ last_in = NoInput
    /\ unit = NoCall
    /\ AuxIdle

\* everything but the token, the channel and the consumer
tick_vars == <<processes, prev_pgpgin, prev_pgpgout, timestamp, duration,
               show_processes, pids, uids, conn_poisoned, HAS_DELAY_ACCT,
               snapshot, sent, ticks, last_in, unit, aux_vars>>

\* a scheduler that takes the cancelled() arm while its worker runs, and
\* gives the worker up
ExitOnCancel_preempts ==
    /\ pc \in {"select", "await"}
    /\ cancelled
    /\ pc' = "done"
    /\ worker' = None
    /\ UNCHANGED <<cancelled, rx, queue, current_snapshot, recv_count>>
    /\ UNCHANGED tick_vars

\* select! takes the cancelled() arm: break, which drops tx
ExitOnCancel ==
    /\ pc = "select"
    /\ cancelled
    /\ pc' = "done"
    /\ UNCHANGED <<worker, cancelled, rx, queue, current_snapshot, recv_count>>
    /\ UNCHANGED tick_vars

\* select! takes the tick arm, the interval having elapsed: clone the
\* state into a temp_list, hand it to spawn_blocking and await the result
StartTick ==
    /\ pc = "select"
    /\ pc' = "await"
    /\ worker' = Some(Carried)
    /\ UNCHANGED <<cancelled, rx, queue, current_snapshot, recv_count>>
    /\ UNCHANGED tick_vars

\* the worker returns and the scheduler matches on its result
FinishTick ==
    /\ pc = "await"
    /\ OnReads(StreamVms, StreamProcs, {Some(KSmall), Some(KLarge)}, {MetaPlain},
               FALSE, unwrap(worker), FALSE)

\* cancellation_token.cancel()
Cancel ==
    /\ ~cancelled
    /\ cancelled' = TRUE
    /\ UNCHANGED <<pc, worker, rx, queue, current_snapshot, recv_count>>
    /\ UNCHANGED tick_vars

\* the consumer drops the receiver, and with it what is still queued
DropReceiver ==
    /\ rx /= "dropped"
    /\ rx' = "dropped"
    /\ queue' = <<>>
    /\ UNCHANGED <<pc, worker, cancelled, current_snapshot, recv_count>>
    /\ UNCHANGED tick_vars

\* recv() that takes the newest snapshot queued
ConsumerRecv_newest ==
    /\ rx = "open"
    /\ queue /= <<>>
    /\ current_snapshot' = Some(queue[Len(queue)])
    /\ queue' = SubSeq(queue, 1, Len(queue) - 1)
    /\ recv_count' = recv_count + 1
    /\ UNCHANGED <<pc, worker, cancelled, rx>>
    /\ UNCHANGED tick_vars

\* Some(snapshot) = data_stream.recv()
ConsumerRecv ==
    /\ rx = "open"
    /\ queue /= <<>>
    /\ current_snapshot' = Some(Head(queue))
    /\ queue' = Tail(queue)
    /\ recv_count' = recv_count + 1
    /\ UNCHANGED <<pc, worker, cancelled, rx>>
    /\ UNCHANGED tick_vars

\* recv() gives None: the channel is empty and tx is dropped
ConsumerSeesClosed ==
    /\ rx = "open"
    /\ queue = <<>>
    /\ pc = "done"
    /\ rx' = "closed"
    /\ UNCHANGED <<pc, worker, cancelled, queue, current_snapshot, recv_count>>
    /\ UNCHANGED tick_vars

StreamNext ==
    \/ StartTick
    \/ FinishTick
    \/ ExitOnCancel
    \/ Cancel
    \/ DropReceiver
    \/ ConsumerRecv
    \/ ConsumerSeesClosed

SpecStream == StreamInit /\ [][StreamNext]_vars

\* the interval elapses and the worker returns; a select! with both arms
\* ready takes either, and does not leave out one for ever; a consumer
\* that holds the receiver keeps polling it
StreamFairness ==
    /\ WF_vars(StartTick)
    /\ WF_vars(FinishTick)
    /\ SF_vars(ExitOnCancel)
    /\ WF_vars(ConsumerRecv)
    /\ WF_vars(ConsumerSeesClosed)

FairStream == SpecStream /\ StreamFairness

(***************************************************************************)
(* The delay-accounting flag of taskstats.rs, one atomic step at a time    *)
(***************************************************************************)
\* the scheduler's variables but for the flag
list_vars == <<processes, prev_pgpgin, prev_pgpgout, timestamp, duration,
               show_processes, pids, uids, conn_poisoned, snapshot, sent,
               ticks, last_in, unit>>

\* the threads that convert samples
Converters == {1, 2}

\* blkio_delay_total of the samples they convert
AcctDelays == {0, 1000000}

\* the number of conversions and of has_delay_acct() calls followed
MaxConversions == 3

MaxFlagReads == 2

\* a store that writes whether this sample has a delay
flag_after_store_tracks(seen, blkio_delay, current) == blkio_delay /= 0

\* the flag after `if !seen && blkio_delay != 0 { store(true) }`, seen being
\* what the load gave; all stores and loads of the one AtomicBool are in
\* one order, and Relaxed leaves that order as it is
flag_after_store(seen, blkio_delay, current) ==
    IF ~seen /\ blkio_delay /= 0 THEN TRUE ELSE current

AcctInit ==
    /\ processes = EmptyMap
    /\ prev_pgpgin = None
    /\ prev_pgpgout = None
    /\ timestamp = 0
    /\ duration = 0
    /\ show_processes = FALSE
    /\ pids = {}
    /\ uids = {}
    /\ conn_poisoned = FALSE
    /\ HAS_DELAY_ACCT = FALSE
    /\ snapshot = None
    /\ sent = 0
    /\ ticks = 0
    /\ StreamIdle
    /\ last_in = NoInput
    /\ unit = NoCall
    /\ conv = [c \in Converters |->
                 [pc |-> "idle", blkio |-> 0, seen |-> FALSE, done |-> <<>>]]
    /\ flag_reads = <<>>
    /\ cache = EmptyMap
    /\ clock = 0
    /\ disk = EmptyMap
    /\ cache_ret = NoRead
    /\ UiIdle
    /\ main = NoMain

AcctFrame ==
    UNCHANGED <<list_vars, stream_vars, cache, clock, disk, cache_ret, main,
                sched, conn_lock, ui>>

\* the conversions begun so far
Conversions ==
    Cardinality({<<c, i>> \in Converters \X (1..MaxConversions) :
                    i <= Len(conv[c].done)
                         + (IF conv[c].pc = "loaded" THEN 1 ELSE 0)})

\* from_kernel_stats on thread c, up to HAS_DELAY_ACCT.load(Relaxed)
ConvLoad(c) ==
    /\ conv[c].pc = "idle"
    /\ Conversions < MaxConversions
    /\ \E d \in AcctDelays :
        conv' = [conv EXCEPT ![c] = [@ EXCEPT !.pc = "loaded", !.blkio = d,
                                               !.seen = HAS_DELAY_ACCT]]
    /\ UNCHANGED <<HAS_DELAY_ACCT, flag_reads>>
    /\ AcctFrame

\* the rest of from_kernel_stats on thread c: the conditional store
ConvStore(c) ==
    /\ conv[c].pc = "loaded"
    /\ HAS_DELAY_ACCT' = flag_after_store(conv[c].seen, conv[c].blkio,
                                          HAS_DELAY_ACCT)
    /\ conv' = [conv EXCEPT ![c] = [@ EXCEPT !.pc = "idle",
                                               !.done = Append(@, conv[c].blkio)]]
    /\ UNCHANGED flag_reads
    /\ AcctFrame

\* TaskStats::has_delay_acct() on some other thread
ReadFlag ==
    /\ Len(flag_reads) < MaxFlagReads
    /\ flag_reads' = Append(flag_reads, HAS_DELAY_ACCT)
    /\ UNCHANGED <<HAS_DELAY_ACCT, conv>>
    /\ AcctFrame

AcctNext ==
    \/ \E c \in Converters : ConvLoad(c)
    \/ \E c \in Converters : ConvStore(c)
    \/ ReadFlag

SpecAcct == AcctInit /\ [][AcctNext]_vars

(***************************************************************************)
(* The /proc file cache of proc_reader.rs, with a clock and files that     *)
(* change                                                                  *)
(***************************************************************************)
CacheTTL_Static == [kind |-> "Static", d |-> 0]

CacheTTL_Refresh(d) == [kind |-> "Refresh", d |-> d]

\* Duration::from_secs(2), the time to live of /proc/<tid>/stat
RefreshSecs == 2

\* the clock values followed, in seconds
MaxClock == 4

\* the files the reader caches and the policy it reads each with
CachePaths == {"/proc/1/status", "/proc/1/stat"}

TtlOf(path) ==
    IF path = "/proc/1/stat" THEN CacheTTL_Refresh(RefreshSecs)
    ELSE CacheTTL_Static

\* what a file may hold
FileContents == {"v1", "v2"}

\* CacheEntry::new: the timestamp is Instant::now()
CacheEntry_new(content, ttl, now) ==
    [content |-> content, timestamp |-> now, ttl |-> ttl]

\* Instant::elapsed
elapsed(entry, now) == now - entry.timestamp

\* CacheEntry::is_valid
is_valid(entry, now) ==
    IF entry.ttl.kind = "Static" THEN TRUE
    ELSE elapsed(entry, now) < entry.ttl.d

\* ProcCache::read: the cache after the call, what it returns, and whether
\* it went to the file; files[path] is None for a file that cannot be read
ProcCache_read(c, path, ttl, now, files) ==
    IF path \in DOMAIN c /\ is_valid(c[path], now)
    THEN [cache |-> c, result |-> io_Ok(c[path].content), from_disk |-> FALSE]
    ELSE IF files[path] = None
    THEN [cache |-> c, result |-> io_Err, from_disk |-> TRUE]
    ELSE [cache |-> [q \in DOMAIN c \cup {path} |->
                        IF q = path
                        THEN CacheEntry_new(files[path][1], ttl, now)
                        ELSE c[q]],
          result |-> io_Ok(files[path][1]), from_disk |-> TRUE]

CacheInit ==
    /\ processes = EmptyMap
    /\ prev_pgpgin = None
    /\ prev_pgpgout = None
    /\ timestamp = 0
    /\ duration = 0
    /\ show_processes = FALSE
    /\ pids = {}
    /\ uids = {}
    /\ conn_poisoned = FALSE
    /\ HAS_DELAY_ACCT = FALSE
    /\ snapshot = None
    /\ sent = 0
    /\ ticks = 0
    /\ StreamIdle
    /\ last_in = NoInput
    /\ unit = NoCall
    /\ conv = EmptyMap
    /\ flag_reads = <<>>
    /\ cache = EmptyMap
    /\ clock = 0
    /\ disk \in [CachePaths -> {None} \cup {Some(v) : v \in FileContents}]
    /\ cache_ret = NoRead
    /\ UiIdle
    /\ main = NoMain

CacheFrame ==
    UNCHANGED <<list_vars, stream_vars, HAS_DELAY_ACCT, conv, flag_reads, main,
                sched, conn_lock, ui>>

\* one call of ProcCache::read
CacheRead(path) ==
    /\ LET r == ProcCache_read(cache, path, TtlOf(path), clock, disk)
       IN /\ cache' = r.cache
          /\ cache_ret' = [path |-> path, ttl |-> TtlOf(path).kind,
                           result |-> r.result, from_disk |-> r.from_disk,
                           at |-> clock]
    /\ UNCHANGED <<clock, disk>>
    /\ CacheFrame

\* a second passes
ClockAdvance ==
    /\ clock < MaxClock
    /\ clock' = clock + 1
    /\ UNCHANGED <<cache, disk, cache_ret>>
    /\ CacheFrame

\* the kernel changes what a file holds, or the task goes away
FileChange(path) ==
    /\ \E v \in ({None} \cup {Some(c) : c \in FileContents}) \ {disk[path]} :
          disk' = [disk EXCEPT ![path] = v]
    /\ UNCHANGED <<cache, clock, cache_ret>>
    /\ CacheFrame

CacheNext ==
    \/ \E path \in CachePaths : CacheRead(path)
    \/ ClockAdvance
    \/ \E path \in CachePaths : FileChange(path)

SpecCache == CacheInit /\ [][CacheNext]_vars

(***************************************************************************)
(* The loops of run_batch_mode and run_interactive_mode (main.rs) and the  *)
(* iteration limit                                                         *)
(***************************************************************************)
\* events waiting in the channel of the TUI at one time
MaxEvents == 2

\* what the event loop of the TUI sends: the frame timer, the space bar,
\* q (Q and Ctrl-C do the same), an error of the terminal's event stream,
\* and the events the loop does nothing on (Init, Tick, mouse, resize)
TuiEvents == {"Render", "Space", "Quit", "Error", "Tick"}

\* -n as it can be given
IterationLimits == {None} \cup {Some(n) : n \in 0..MaxTicks}

MainInit ==
    /\ processes = EmptyMap
    /\ prev_pgpgin = None
    /\ prev_pgpgout = None
    /\ timestamp = 0
    /\ duration = 0
    /\ show_processes = FALSE
    /\ pids = {}
    /\ uids = {}
    /\ conn_poisoned = FALSE
    /\ HAS_DELAY_ACCT = FALSE
    /\ snapshot = None
    /\ sent = 0
    /\ ticks = 0
    /\ StreamIdle
    /\ last_in = NoInput
    /\ unit = NoCall
    /\ conv = EmptyMap
    /\ flag_reads = <<>>
    /\ cache = EmptyMap
    /\ clock = 0
    /\ disk = EmptyMap
    /\ cache_ret = NoRead
    /\ UiIdle
    /\ \E mode \in {"batch", "interactive"}, n \in IterationLimits :
          main = [NoMain EXCEPT !.mode = mode, !.iterations = n]

\* one pass of the loop of run_batch_mode, up to the sleep
BatchTick ==
    /\ main.mode = "batch"
    /\ main.pc = "loop"
    /\ ticks < MaxTicks
    /\ OnReads({Some([pgpgin |-> 1000, pgpgout |-> 500])}, {None, Some({1})},
               {Some(KSmall)}, {MetaPlain}, FALSE, Carried, TRUE)

\* thread::sleep(delay) and back to the head of the loop
BatchSleep ==
    /\ main.mode = "batch"
    /\ main.pc = "sleep"
    /\ main' = [main EXCEPT !.sleeps = @ + 1, !.pc = "loop"]
    /\ UNCHANGED <<list_vars, HAS_DELAY_ACCT, stream_vars, conv, flag_reads,
                   cache, clock, disk, cache_ret, sched, conn_lock, ui>>

InteractiveFrame ==
    UNCHANGED <<list_vars, HAS_DELAY_ACCT, pc, worker, rx, queue, conv,
                flag_reads, cache, clock, disk, cache_ret, sched, conn_lock, ui>>

\* the first arm of the select!: a snapshot of the stream is kept and,
\* unless paused, sent on to the TUI's channel as a DataUpdate
InteractiveRecv ==
    /\ main.mode = "interactive"
    /\ main.pc = "loop"
    /\ recv_count < MaxTicks
    /\ main.paused \/ Len(main.events) < MaxEvents
    /\ recv_count' = recv_count + 1
    /\ current_snapshot' = Some([seq |-> recv_count + 1])
    /\ main' = IF main.paused THEN main
               ELSE [main EXCEPT !.events = Append(@, "DataUpdate")]
    /\ UNCHANGED cancelled
    /\ InteractiveFrame

\* the event loop of the TUI sends an event
TuiSend(e) ==
    /\ main.mode = "interactive"
    /\ main.pc = "loop"
    /\ Len(main.events) < MaxEvents
    /\ main' = [main EXCEPT !.events = Append(@, e)]
    /\ UNCHANGED <<cancelled, current_snapshot, recv_count>>
    /\ InteractiveFrame

\* the second arm of the select!: the match on the next event; tui.draw
\* can fail, and `?` then returns the error at once; a break goes on to
\* data_cancel_token.cancel()
InteractiveEvent ==
    /\ main.mode = "interactive"
    /\ main.pc = "loop"
    /\ main.events /= <<>>
    /\ LET e == Head(main.events)
           m == [main EXCEPT !.events = Tail(@)]
           failed == [m EXCEPT !.pc = "done", !.exit_by = "error"]
       IN  \E drawn \in BOOLEAN :
            main' =
              CASE e = "DataUpdate" ->
                     IF drawn
                     THEN check_limit([m EXCEPT !.draws = @ + 1], "loop")
                     ELSE failed
                [] e = "Render" ->
                     IF is_some(current_snapshot) /\ ~drawn THEN failed ELSE m
                [] e = "Space" -> [m EXCEPT !.paused = ~@]
                [] e = "Quit" -> [m EXCEPT !.pc = "done", !.exit_by = "key"]
                [] e = "Error" ->
                     [m EXCEPT !.pc = "done", !.exit_by = "event_error"]
                [] OTHER -> m
    /\ cancelled' = (main'.pc = "done" /\ main'.exit_by /= "error")
    /\ UNCHANGED <<current_snapshot, recv_count>>
    /\ InteractiveFrame

MainNext ==
    \/ BatchTick
    \/ BatchSleep
    \/ InteractiveRecv
    \/ \E e \in TuiEvents : TuiSend(e)
    \/ InteractiveEvent

SpecMain == MainInit /\ [][MainNext]_vars

\* the batch loop goes on unless it has returned: its pass and its sleep
\* are taken when they can be
FairMain == SpecMain /\ WF_vars(BatchTick) /\ WF_vars(BatchSleep)

(***************************************************************************)
(* The 'p' key of run_interactive_mode: the scheduler of the old mode, the *)
(* scheduler spawned for the new one, their workers and the one            *)
(* connection they share                                                   *)
(***************************************************************************)
\* scheduler tasks spawned in a run, and ticks of each
MaxSchedulers == 2

MaxSchedTicks == 1

\* the threads a worker asks the kernel about in one tick
QueryCounts == {1, 2}

\* spawn_refresh_stream: a task at its select!, its token and its channel
NewScheduler(show) ==
    [show_processes |-> show, pc |-> "select", cancelled |-> FALSE,
     rx |-> "open", queue |-> <<>>, ticks |-> 0, wpc |-> "none", left |-> 0]

\* the stream the main loop holds in data_stream: the one spawned last
data_stream(s) == Cardinality(DOMAIN s)

\* a 'p' key that leaves the old stream as it is
retire_keeps(s) == s

\* data_cancel_token.cancel(), and the old receiver, dropped when
\* data_stream is assigned, with what is still queued in it
retire(s) == [s EXCEPT !.cancelled = TRUE, !.rx = "dropped", !.queue = <<>>]

\* a lock() that does not wait for the holder
lock_granted_always(holder) == TRUE

\* Mutex::lock returns once no other thread holds the guard
lock_granted(holder) == holder = 0

ToggleInit ==
    /\ processes = EmptyMap
    /\ prev_pgpgin = None
    /\ prev_pgpgout = None
    /\ timestamp = 0
    /\ duration = 0
    /\ show_processes = FALSE
    /\ pids = {}
    /\ uids = {}
    /\ conn_poisoned = FALSE
    /\ HAS_DELAY_ACCT = FALSE
    /\ snapshot = None
    /\ sent = 0
    /\ ticks = 0
    /\ StreamIdle
    /\ last_in = NoInput
    /\ unit = NoCall
    /\ conv = EmptyMap
    /\ flag_reads = <<>>
    /\ cache = EmptyMap
    /\ clock = 0
    /\ disk = EmptyMap
    /\ cache_ret = NoRead
    /\ main = NoMain
    /\ \E show \in BOOLEAN : sched = [g \in {1} |-> NewScheduler(show)]
    /\ conn_lock = 0
    /\ ui = NoUi

ToggleFrame ==
    UNCHANGED <<list_vars, HAS_DELAY_ACCT, pc, worker, cancelled, rx, queue,
                conv, flag_reads, cache, clock, disk, cache_ret, main, ui>>

\* the tick arm of scheduler g's select!: spawn_blocking starts a worker
\* that has some threads to ask the kernel about
SchedStart(g) ==
    /\ sched[g].pc = "select"
    /\ sched[g].ticks < MaxSchedTicks
    /\ \E n \in QueryCounts :
          sched' = [sched EXCEPT ![g] = [@ EXCEPT !.pc = "await",
                                                  !.wpc = "lock", !.left = n]]
    /\ UNCHANGED <<conn_lock, current_snapshot, recv_count>>
    /\ ToggleFrame

\* the cancelled() arm of scheduler g's select!
SchedExit(g) ==
    /\ sched[g].pc = "select"
    /\ sched[g].cancelled
    /\ sched' = [sched EXCEPT ![g] = [@ EXCEPT !.pc = "done"]]
    /\ UNCHANGED <<conn_lock, current_snapshot, recv_count>>
    /\ ToggleFrame

\* g's worker: self.taskstats_conn.lock() returns the guard, and
\* conn.get_task_stats(tid) is called on it
WorkerLock(g) ==
    /\ sched[g].wpc = "lock"
    /\ lock_granted(conn_lock)
    /\ conn_lock' = g
    /\ sched' = [sched EXCEPT ![g] = [@ EXCEPT !.wpc = "query"]]
    /\ UNCHANGED <<current_snapshot, recv_count>>
    /\ ToggleFrame

\* g's worker: conn.get_task_stats(tid) has its reply, update_stats and the
\* totals are done and the guard goes out of scope; on to the next thread,
\* or back from refresh_processes
WorkerRelease(g) ==
    /\ sched[g].wpc = "query"
    /\ conn_lock' = (IF conn_lock = g THEN 0 ELSE conn_lock)
    /\ sched' = [sched EXCEPT ![g] =
                    [@ EXCEPT !.left = @ - 1,
                              !.wpc = IF sched[g].left > 1 THEN "lock"
                                      ELSE "ret"]]
    /\ UNCHANGED <<current_snapshot, recv_count>>
    /\ ToggleFrame

\* scheduler g's match on the worker's result: on Ok the snapshot goes to
\* tx.send, which fails when the receiver is dropped, and then break
SchedFinish(g) ==
    /\ sched[g].pc = "await"
    /\ sched[g].wpc = "ret"
    /\ \E ok \in BOOLEAN :
          sched' = [sched EXCEPT ![g] =
            [@ EXCEPT !.wpc = "none",
                      !.ticks = @ + 1,
                      !.pc = IF ok /\ sched[g].rx = "dropped" THEN "done"
                             ELSE "select",
                      !.queue = IF ok /\ sched[g].rx = "open"
                                THEN Append(@, [gen |-> g,
                                                show_processes |->
                                                    sched[g].show_processes])
                                ELSE @]]
    /\ UNCHANGED <<conn_lock, current_snapshot, recv_count>>
    /\ ToggleFrame

\* the 'p' key: the mode is toggled, the token of the running stream is
\* cancelled and a stream is spawned for the new mode with a new token
ModeToggle ==
    /\ data_stream(sched) < MaxSchedulers
    /\ LET old == data_stream(sched)
       IN  sched' = [g \in DOMAIN sched \cup {old + 1} |->
                      IF g = old THEN retire(sched[old])
                      ELSE IF g = old + 1
                      THEN NewScheduler(~sched[old].show_processes)
                      ELSE sched[g]]
    /\ UNCHANGED <<conn_lock, current_snapshot, recv_count>>
    /\ ToggleFrame

\* Some(snapshot) = data_stream.recv() in the main loop
MainRecv ==
    /\ sched[data_stream(sched)].queue /= <<>>
    /\ current_snapshot' = Some(Head(sched[data_stream(sched)].queue))
    /\ recv_count' = recv_count + 1
    /\ sched' = [sched EXCEPT ![data_stream(sched)] =
                    [@ EXCEPT !.queue = Tail(@)]]
    /\ UNCHANGED conn_lock
    /\ ToggleFrame

ToggleNext ==
    \/ \E g \in DOMAIN sched : SchedStart(g)
    \/ \E g \in DOMAIN sched : SchedExit(g)
    \/ \E g \in DOMAIN sched : WorkerLock(g)
    \/ \E g \in DOMAIN sched : WorkerRelease(g)
    \/ \E g \in DOMAIN sched : SchedFinish(g)
    \/ ModeToggle
    \/ MainRecv

SpecToggle == ToggleInit /\ [][ToggleNext]_vars

\* workers run and return, a scheduler matches on a result it has, and a
\* select! whose cancelled() arm is ready again and again takes it
ToggleFairness ==
    \A g \in 1..MaxSchedulers :
        /\ WF_vars(g \in DOMAIN sched /\ WorkerLock(g))
        /\ WF_vars(g \in DOMAIN sched /\ WorkerRelease(g))
        /\ WF_vars(g \in DOMAIN sched /\ SchedFinish(g))
        /\ SF_vars(g \in DOMAIN sched /\ SchedExit(g))

FairToggle == SpecToggle /\ ToggleFairness

(***************************************************************************)
(* What run_interactive_mode draws (main.rs): the flag it reads once, the  *)
(* snapshot it keeps, the pause and the sort column; -n is not given       *)
(***************************************************************************)
\* snapshots the stream delivers and events waiting in the TUI's channel
MaxSnapshots == 2

MaxUiEvents == 1

\* what the event loop of the TUI sends: the frame timer, the arrow, Home
\* and End keys without Ctrl, the space bar and q
UiKeys == {"Render", "Left", "Right", "Home", "End", "Space", "Quit"}

UiInit ==
    /\ processes = EmptyMap
    /\ prev_pgpgin = None
    /\ prev_pgpgout = None
    /\ timestamp = 0
    /\ duration = 0
    /\ show_processes = FALSE
    /\ pids = {}
    /\ uids = {}
    /\ conn_poisoned = FALSE
    /\ HAS_DELAY_ACCT = FALSE
    /\ snapshot = None
    /\ sent = 0
    /\ ticks = 0
    /\ StreamIdle
    /\ last_in = NoInput
    /\ unit = NoCall
    /\ AuxIdle

UiFrame ==
    UNCHANGED <<list_vars, stream_vars, conv, flag_reads, cache, clock, disk,
                cache_ret, main, sched, conn_lock>>

\* run_interactive_mode up to its loop: UIState::default(), the one call of
\* TaskStats::has_delay_acct(), the switches of the command line, and the
\* stream spawned
UiStart ==
    /\ ~ui.started
    /\ \E only \in BOOLEAN, accumulated \in BOOLEAN :
          ui' = [ui EXCEPT !.started = TRUE,
                           !.pc = "loop",
                           !.has_delay_acct = HAS_DELAY_ACCT,
                           !.state = [UIState_default EXCEPT
                                          !.only_active = only,
                                          !.accumulated = accumulated]]
    /\ UNCHANGED HAS_DELAY_ACCT
    /\ UiFrame

\* tui.draw(.., &state, has_delay_acct) on a snapshot; held says that the
\* snapshot came in during the pause that is on
draw(u, seq, held) ==
    [u EXCEPT !.last_draw = Some([seq |-> seq,
                                  has_delay_acct |-> u.has_delay_acct,
                                  latched |-> HAS_DELAY_ACCT,
                                  paused |-> u.state.paused,
                                  held |-> held])]

\* the first arm of the select!: the stream's worker has converted a
\* sample with some blkio delay, the snapshot is kept and, unless paused,
\* sent on as a DataUpdate
UiRecv ==
    /\ ui.pc = "loop"
    /\ ui.received < MaxSnapshots
    /\ ui.state.paused \/ Len(ui.events) < MaxUiEvents
    /\ \E d \in AcctDelays :
          HAS_DELAY_ACCT' = flag_after_store(HAS_DELAY_ACCT, d, HAS_DELAY_ACCT)
    /\ LET seq == ui.received + 1
           u == [ui EXCEPT !.received = seq, !.current_snapshot = Some(seq),
                           !.held = ui.state.paused]
       IN  ui' = IF ui.state.paused THEN u
                 ELSE [u EXCEPT !.events =
                                   Append(@, [kind |-> "DataUpdate",
                                              seq |-> seq])]
    /\ UiFrame

\* the event loop of the TUI sends an event
UiSend(k) ==
    /\ ui.pc = "loop"
    /\ Len(ui.events) < MaxUiEvents
    /\ ui' = [ui EXCEPT !.events = Append(@, [kind |-> k, seq |-> 0])]
    /\ UNCHANGED HAS_DELAY_ACCT
    /\ UiFrame

\* the second arm of the select!: the match on the next event; a draw that
\* fails returns its error
UiEvent ==
    /\ ui.pc = "loop"
    /\ ui.events /= <<>>
    /\ LET e == Head(ui.events)
           u == [ui EXCEPT !.events = Tail(@)]
           failed == [u EXCEPT !.pc = "done"]
           columns == available_columns(ui.has_delay_acct)
       IN  \E drawn \in BOOLEAN :
            ui' =
              CASE e.kind = "DataUpdate" ->
                     IF drawn THEN draw(u, e.seq, FALSE) ELSE failed
                [] e.kind = "Render" ->
                     IF is_some(ui.current_snapshot)
                     THEN IF drawn
                          THEN draw(u, unwrap(ui.current_snapshot), ui.held)
                          ELSE failed
                     ELSE u
                [] e.kind = "Space" ->
                     [u EXCEPT !.state.paused = ~@, !.held = FALSE]
                [] e.kind = "Left" ->
                     [u EXCEPT !.state.sort_column =
                                   cycle_backward(@, ui.has_delay_acct)]
                [] e.kind = "Right" ->
                     [u EXCEPT !.state.sort_column =
                                   cycle_forward(@, ui.has_delay_acct)]
                [] e.kind = "Home" ->
                     [u EXCEPT !.state.sort_column = columns[1]]
                [] e.kind = "End" ->
                     [u EXCEPT !.state.sort_column = columns[Len(columns)]]
                [] OTHER -> [u EXCEPT !.pc = "done"]
    /\ UNCHANGED HAS_DELAY_ACCT
    /\ UiFrame

UiNext ==
    \/ UiStart
    \/ UiRecv
    \/ \E k \in UiKeys : UiSend(k)
    \/ UiEvent

SpecUi == UiInit /\ [][UiNext]_vars

(***************************************************************************)
(* Single calls on counter records, thread entries and process entries     *)
(***************************************************************************)
UnitVals == {0, 1, U64Max}

UnitRecs ==
    {[version |-> 0, blkio_delay_total |-> d, swapin_delay_total |-> s,
      read_bytes |-> r, write_bytes |-> w, cancelled_write_bytes |-> c] :
        d \in UnitVals, r \in UnitVals, s \in {0, U64Max}, w \in {0, U64Max},
        c \in {0, U64Max}}

\* the deltas a thread entry can hold between two kernel replies
ThreadDeltas ==
    {delta(from_kernel_stats(x), from_kernel_stats(y)) :
        x \in {KZero, KSmall, KLarge}, y \in {KZero, KSmall, KLarge}}

UnitThreads ==
    UNION {[T -> [tid : {0}, stats_total : {Some(TaskStats_default)},
                  stats_delta : ThreadDeltas]] : T \in {{}, {1}, {1, 3}}}

UnitProcs ==
    {[ProcessInfo_new(1) EXCEPT
        !.threads = [t \in DOMAIN th |-> [th[t] EXCEPT !.tid = t]],
        !.stats_accum = acc] :
        th \in UnitThreads, acc \in ThreadDeltas}

\* levels 0..=7, the largest value of the low 13 bits, and one beyond them
UnitIoprios ==
    {Ioprio_new(c, d) : c \in IoprioClass,
                        d \in 0..7 \cup {IOPRIO_PRIO_MASK, IOPRIO_PRIO_MASK + 1}}

\* the longest level part of the strings given to from_string
MaxLevelLen == 2

\* the strings over chars of at most n characters
RECURSIVE StringsUpTo(_, _)
StringsUpTo(chars, n) ==
    IF n = 0 THEN {<<>>}
    ELSE StringsUpTo(chars, n - 1)
         \cup {Append(t, c) : t \in StringsUpTo(chars, n - 1), c \in chars}

\* strings without a '/', and a class part and a level part around a '/'
UnitStrings ==
    {<<>>, <<"i", "d", "l", "e">>, <<"n", "o", "n", "e">>, <<"b", "e">>,
     <<"r", "t">>, <<"i", "n", "v", "a", "l", "i", "d">>, <<"4">>}
    \cup {c \o <<"/">> \o l :
            c \in {<<>>, <<"r", "t">>, <<"b", "e">>, <<"i", "d", "l", "e">>,
                   <<"n", "o", "n", "e">>, <<"B", "E">>},
            l \in StringsUpTo({"0", "3", "7", "8", "+", "-", "x", "/"},
                              MaxLevelLen)}

\* returns of the ioprio_get syscall: an error, none/0, none/3, rt/0, be/4,
\* idle/0 and a word with class 4
UnitSyscalls == {-1, 0, 3, 8192, 16388, 24576, 32772}

\* returns of sched_getscheduler: an error, SCHED_OTHER, SCHED_FIFO,
\* SCHED_RR, SCHED_BATCH and SCHED_IDLE
UnitPolicies == {-1, 0, SCHED_FIFO, SCHED_RR, 3, SCHED_IDLE}

UnitNices == -20..19

\* the longest first argument drawn
MaxTokenLen == 4

\* first arguments: paths, names, names with a colon
FirstTokens == StringsUpTo({"/", ":", "b"}, MaxTokenLen) \ {<<>>}

\* the arguments after the first; an empty one is two NULs in a row
RestTokens == {<<>>, <<<<"-", "l">>>>, <<<<>>, <<"-", "D">>>>}

\* /proc/<pid>/cmdline of a process with the given arguments: each is
\* followed by a NUL
RECURSIVE cmdline_file(_)
cmdline_file(tokens) ==
    IF tokens = <<>> THEN <<>>
    ELSE Head(tokens) \o <<NUL>> \o cmdline_file(Tail(tokens))

\* the lines of a status file
MaxStatusLines == 3

\* lines a status file may hold: names, an empty name, ids, the id 0, an id
\* that is not a number, an id line without a value, and another key
StatusLines ==
    {StatusLine(Some("Name"), <<<<"t">>>>), StatusLine(Some("Name"), <<>>),
     StatusLine(Some("Tgid"), <<<<"5">>>>), StatusLine(Some("Tgid"), <<<<"0">>>>),
     StatusLine(Some("Tgid"), <<<<"x">>>>), StatusLine(Some("Tgid"), <<>>),
     StatusLine(Some("Pid"), <<<<"7">>, <<"9">>>>),
     StatusLine(Some("Pid"), <<<<"0">>>>),
     StatusLine(Some("Pid"), <<<<"-", "7">>>>),
     StatusLine(Some("PPid"), <<<<"1">>>>)}

RECURSIVE LinesUpTo(_)
LinesUpTo(n) ==
    IF n = 0 THEN {<<>>}
    ELSE LinesUpTo(n - 1)
         \cup {Append(t, l) : t \in LinesUpTo(n - 1), l \in StatusLines}

UnitCases ==
    {[NoCall EXCEPT !.a = x, !.b = y] : x \in UnitRecs, y \in UnitRecs}
    \cup {[NoCall EXCEPT !.proc = q, !.proc_r = q] : q \in UnitProcs}
    \cup {[NoCall EXCEPT !.io = i] : i \in UnitIoprios}
    \cup {[NoCall EXCEPT !.s = x] : x \in UnitStrings}
    \cup {[NoCall EXCEPT !.result = r, !.policy = q, !.nice = n] :
            r \in UnitSyscalls, q \in UnitPolicies, n \in UnitNices}
    \cup {[NoCall EXCEPT !.reply = [kind |-> k, stats |-> st]] :
            k \in PidStatsKinds, st \in {KZero, KSmall, KLarge}}
    \cup {[NoCall EXCEPT !.column = SortColumn[i], !.has_delay_acct = h] :
            i \in 1..Len(SortColumn), h \in BOOLEAN}

\* a call on a status file or on a cmdline file
UnitFiles ==
    \/ \E l \in LinesUpTo(MaxStatusLines) \ {<<>>} :
          unit = [NoCall EXCEPT !.lines = l]
    \/ \E f \in FirstTokens, r \in RestTokens :
          unit = [NoCall EXCEPT !.tokens = <<f>> \o r,
                               !.content = cmdline_file(<<f>> \o r)]

UnitInit ==
    /\ processes = EmptyMap
    /\ prev_pgpgin = None
    /\ prev_pgpgout = None
    /\ timestamp = 0
    /\ duration = 0
    /\ show_processes = TRUE
    /\ pids = {}
    /\ uids = {}
    /\ conn_poisoned = FALSE
    /\ HAS_DELAY_ACCT = FALSE
    /\ snapshot = None
    /\ sent = 0
    /\ ticks = 0
    /\ StreamIdle
    /\ last_in = NoInput
    /\ (unit \in UnitCases \/ UnitFiles)
    /\ AuxIdle

UnitFrame ==
    UNCHANGED <<processes, prev_pgpgin, prev_pgpgout, timestamp, duration,
                show_processes, pids, uids,
                conn_poisoned, HAS_DELAY_ACCT, snapshot, sent,
                ticks, stream_vars, last_in, aux_vars>>

\* a.delta(&b)
UnitDelta ==
    /\ unit.op = "none"
    /\ unit' = [unit EXCEPT !.op = "delta", !.r = delta(unit.a, unit.b)]
    /\ UnitFrame

\* a.accumulate(&b)
UnitAccumulate ==
    /\ unit.op = "none"
    /\ unit' = [unit EXCEPT !.op = "accumulate", !.r = accumulate(unit.a, unit.b)]
    /\ UnitFrame

\* a.accumulate(&a.delta(&a))
UnitRoundTrip ==
    /\ unit.op = "none"
    /\ unit' = [unit EXCEPT !.op = "round_trip",
                            !.r = accumulate(unit.a, delta(unit.a, unit.a))]
    /\ UnitFrame

\* update_stats(a) on a thread entry whose stats_total is Some(b)
UnitThreadUpdate ==
    /\ unit.op = "none"
    /\ unit' = [unit EXCEPT
                    !.op = "thread_update",
                    !.r = ThreadInfo_update_stats(
                              [ThreadInfo_new(1) EXCEPT !.stats_total = Some(unit.b)],
                              unit.a).stats_delta]
    /\ UnitFrame

\* update_stats() on the process entry proc
UnitProcessUpdate ==
    /\ unit.op = "none"
    /\ unit' = [unit EXCEPT
                    !.op = "process_update",
                    !.proc_r = ProcessInfo_update_stats(unit.proc).self,
                    !.ret = ProcessInfo_update_stats(unit.proc).ret]
    /\ UnitFrame

\* Ioprio::from_raw(io.to_raw())
UnitIoprioRaw ==
    /\ unit.op = "none"
    /\ unit' = [unit EXCEPT !.op = "ioprio_raw",
                            !.raw = Ioprio_to_raw(unit.io),
                            !.io_r = Ioprio_from_raw(Ioprio_to_raw(unit.io))]
    /\ UnitFrame

\* Ioprio::from_string(s)
UnitFromString ==
    /\ unit.op = "none"
    /\ unit' = [unit EXCEPT !.op = "from_string",
                            !.parsed = Ioprio_from_string(unit.s)]
    /\ UnitFrame

\* Ioprio::from_string(&io.to_string())
UnitIoprioString ==
    /\ unit.op = "none"
    /\ unit' = [unit EXCEPT !.op = "ioprio_string",
                            !.shown = Ioprio_to_string(unit.io),
                            !.parsed = Ioprio_from_string(Ioprio_to_string(unit.io))]
    /\ UnitFrame

\* get_ioprio(pid) with the given returns of the three system calls
UnitGetIoprio ==
    /\ unit.op = "none"
    /\ unit' = [unit EXCEPT !.op = "get_ioprio",
                            !.got = get_ioprio(unit.result, unit.policy, unit.nice)]
    /\ UnitFrame

\* the command line of the main thread of a process named "b", by
\* ProcReader::parse_cmdline and by ProcessInfo::compute_cmdline
UnitCmdline ==
    /\ unit.op = "none"
    /\ unit.tokens /= <<>>
    /\ unit' = [unit EXCEPT !.op = "cmdline",
                            !.cmd_reader = parse_cmdline(unit.content, <<"b">>),
                            !.cmd_process = compute_cmdline(unit.content, <<"b">>)]
    /\ UnitFrame

\* ProcStatus::parse on a status file
UnitParseStatus ==
    /\ unit.op = "none"
    /\ unit.lines /= <<>>
    /\ unit' = [unit EXCEPT !.op = "parse_status",
                            !.status = ProcStatus_parse(unit.lines)]
    /\ UnitFrame

\* get_task_stats on a connection whose client answers with unit.reply
UnitGetTaskStats ==
    /\ unit.op = "none"
    /\ unit.reply.kind /= "none"
    /\ unit' = [unit EXCEPT !.op = "get_task_stats",
                            !.task_stats = get_task_stats(unit.reply)]
    /\ UnitFrame

RECURSIVE cycle_forward_times(_, _, _)
\* cycle_forward applied n times
cycle_forward_times(c, has_delay_acct, n) ==
    IF n = 0 THEN c
    ELSE cycle_forward_times(cycle_forward(c, has_delay_acct), has_delay_acct,
                             n - 1)

\* the right arrow, the left arrow, one after the other, and the right
\* arrow once for every available column
UnitCycle ==
    /\ unit.op = "none"
    /\ unit.column /= "none"
    /\ LET c == unit.column
           h == unit.has_delay_acct
       IN  unit' = [unit EXCEPT
                       !.op = "cycle",
                       !.forward = cycle_forward(c, h),
                       !.backward = cycle_backward(c, h),
                       !.there_and_back =
                           cycle_backward(cycle_forward(c, h), h),
                       !.back_and_there =
                           cycle_forward(cycle_backward(c, h), h),
                       !.around = cycle_forward_times(
                                      c, h, Len(available_columns(h)))]
    /\ UnitFrame

\* update_prio() on a new entry whose stat file has the given nice value
UnitUpdatePrio ==
    /\ unit.op = "none"
    /\ unit' = [unit EXCEPT !.op = "update_prio",
                            !.prio = update_prio(ProcessInfo_new(1),
                                                 Some(unit.nice)).prio]
    /\ UnitFrame

UnitNext ==
    \/ UnitParseStatus
    \/ UnitCmdline
    \/ UnitGetTaskStats
    \/ UnitCycle
    \/ UnitDelta
    \/ UnitAccumulate
    \/ UnitRoundTrip
    \/ UnitThreadUpdate
    \/ UnitProcessUpdate
    \/ UnitIoprioRaw
    \/ UnitFromString
    \/ UnitIoprioString
    \/ UnitGetIoprio
    \/ UnitUpdatePrio

SpecUnit == UnitInit /\ [][UnitNext]_vars

(***************************************************************************)
(* Properties                                                              *)
(***************************************************************************)
Max0(x) == IF x > 0 THEN x ELSE 0

Capped(x) == IF x > U64Max THEN U64Max ELSE x

ZeroCounters(r) == \A c \in Counters : r[c] = 0

\* the sum of f[x] over the x of S
RECURSIVE SumOver(_, _)
SumOver(f, S) ==
    IF S = {} THEN 0
    ELSE LET x == CHOOSE y \in S : TRUE
         IN  f[x] + SumOver(f, S \ {x})

HasThread(map, p, t) == p \in DOMAIN map /\ t \in DOMAIN map[p].threads

\* C1, for the entry of thread t under process p across one tick
ThreadStep(p, t) ==
    LET had == HasThread(processes, p, t)
        total == IF had THEN processes[p].threads[t].stats_total ELSE None
        th == processes'[p].threads[t]
    IN  HasThread(processes', p, t) =>
            IF last_in'.kind = "ok" /\ t \in DOMAIN last_in'.stats
            THEN /\ is_some(th.stats_total)
                 /\ \A c \in Counters :
                        /\ unwrap(th.stats_total)[c] = last_in'.stats[t][c]
                        /\ th.stats_delta[c] =
                              IF is_some(total)
                              THEN Max0(last_in'.stats[t][c] - unwrap(total)[c])
                              ELSE 0
            ELSE /\ th.stats_total = total
                 /\ IF had THEN th.stats_delta = processes[p].threads[t].stats_delta
                    ELSE ZeroCounters(th.stats_delta)

\* C1: a thread's first successful sample leaves stats_delta all-zero and
\* sets stats_total to the sample; every later successful sample sets
\* stats_delta to max(sample - stats_total, 0) per counter and stats_total to
\* the sample; nothing else changes either field.
C1_UpdateRule ==
    [][\A p \in Pids : \A t \in TaskTids(p) : ThreadStep(p, t)]_vars

\* a second sample of a thread has been taken and gave a non-zero delta
C1_Witness ==
    /\ last_in.kind = "ok"
    /\ \E p \in DOMAIN processes : \E t \in DOMAIN processes[p].threads :
        /\ t \in Sampled
        /\ processes[p].threads[t].stats_delta.read_bytes = U64Max - 4096
        /\ processes[p].threads[t].stats_delta.blkio_delay_total = 2000000
        /\ processes[p].threads[t].stats_delta.swapin_delay_total = 0
        /\ processes[p].threads[t].stats_total = Some(from_kernel_stats(KLarge))

\* the entry that holds thread t in the map ps
OwnerOf(ps, t) == CHOOSE p \in DOMAIN ps : t \in DOMAIN ps[p].threads

\* the sum over the threads sampled in the last tick of counter c of
\* their stats_delta, in the snapshot snap
SampledSum(snap, c) ==
    SumOver([t \in Sampled |->
                snap.processes[OwnerOf(snap.processes, t)].threads[t].stats_delta[c]],
            Sampled)

\* C2: at the end of every tick the published total_io is the pair of the
\* sums of stats_delta.read_bytes and stats_delta.write_bytes over the
\* threads sampled in that tick.
C2_TotalIsSum ==
    (last_in.kind = "ok" /\ is_some(snapshot)) =>
        /\ unwrap(snapshot).total_io[1] = SampledSum(unwrap(snapshot), "read_bytes")
        /\ unwrap(snapshot).total_io[2] = SampledSum(unwrap(snapshot), "write_bytes")

\* the sum of counter c of the stats_delta of the threads of entry q
ThreadSum(q, c) ==
    SumOver([t \in DOMAIN q.threads |-> q.threads[t].stats_delta[c]],
            DOMAIN q.threads)

ByteCounters == {"read_bytes", "write_bytes", "cancelled_write_bytes"}

DelayCounters == {"blkio_delay_total", "swapin_delay_total"}

\* C3 as stated: after ProcessInfo::update_stats on N >= 1 threads the byte
\* counters of stats_delta are the sums of the threads' deltas and the delay
\* counters are the sums divided by N; with N = 0 nothing changes and false
\* is returned.
C3_AggregateIsSum ==
    unit.op = "process_update" =>
        LET N == Cardinality(DOMAIN unit.proc.threads)
        IN  IF N = 0
            THEN unit.proc_r = unit.proc /\ unit.ret = FALSE
            ELSE /\ \A c \in ByteCounters :
                        unit.proc_r.stats_delta[c] = ThreadSum(unit.proc, c)
                 /\ \A c \in DelayCounters :
                        unit.proc_r.stats_delta[c] = ThreadSum(unit.proc, c) \div N

\* C3, amended: after ProcessInfo::update_stats on N >= 1 threads the byte
\* counters of stats_delta are the sums of the threads' deltas capped at
\* u64::MAX and the delay counters are the capped sums divided by N; with
\* N = 0 nothing changes and false is returned.
C3_AggregateIsCappedSum ==
    unit.op = "process_update" =>
        LET N == Cardinality(DOMAIN unit.proc.threads)
        IN  IF N = 0
            THEN unit.proc_r = unit.proc /\ unit.ret = FALSE
            ELSE /\ \A c \in ByteCounters :
                        unit.proc_r.stats_delta[c] = Capped(ThreadSum(unit.proc, c))
                 /\ \A c \in DelayCounters :
                        unit.proc_r.stats_delta[c] =
                            Capped(ThreadSum(unit.proc, c)) \div N

\* two threads with block-I/O delays 1_000_000 and 3_000_000 were averaged
C3_Witness ==
    /\ unit.op = "process_update"
    /\ DOMAIN unit.proc.threads = {1, 3}
    /\ unit.proc.threads[1].stats_delta.blkio_delay_total = 1000000
    /\ unit.proc.threads[3].stats_delta.blkio_delay_total = 3000000
    /\ unit.proc_r.stats_delta.blkio_delay_total = 2000000

\* C4, for the entry of process p across one tick
AccumStep(p) ==
    LET before == IF p \in DOMAIN processes THEN processes[p].stats_accum
                  ELSE [c \in Counters |-> 0]
        after == processes'[p]
    IN  p \in DOMAIN processes' =>
            /\ (last_in'.kind = "ok" /\ ticks' = ticks + 1
                    /\ p \in unwrap(last_in'.proc)) =>
                   \A c \in Counters :
                       after.stats_accum[c] = Capped(before[c] + after.stats_delta[c])
            /\ \A c \in Counters : after.stats_accum[c] >= before[c]

\* C4: in every tick that aggregates a process, its stats_accum becomes the
\* sum, capped at u64::MAX, of its former stats_accum and the tick's
\* stats_delta; no counter of stats_accum ever decreases.
C4_AccumGrows == [][\A p \in Pids : AccumStep(p)]_vars

\* an entry has accumulated over more than one tick
C4_Witness ==
    \E p \in DOMAIN processes :
        /\ processes[p].stats_delta.read_bytes > 0
        /\ processes[p].stats_accum.read_bytes > processes[p].stats_delta.read_bytes

\* C5: delta(a, b) is max(a - b, 0) on every counter, so that a sample
\* below the previous total gives 0 and every counter of a thread's
\* stats_delta is in 0..u64::MAX.
C5_DeltaSaturates ==
    /\ unit.op = "delta" =>
           \A c \in Counters : unit.r[c] = Max0(unit.a[c] - unit.b[c])
    /\ unit.op = "thread_update" =>
           \A c \in Counters :
               /\ unit.r[c] >= 0
               /\ unit.r[c] <= U64Max
               /\ unit.a[c] < unit.b[c] => unit.r[c] = 0

\* a counter went down between two samples and its delta is 0
C5_Witness ==
    /\ unit.op = "delta"
    /\ unit.a.read_bytes < unit.b.read_bytes
    /\ unit.a.blkio_delay_total > unit.b.blkio_delay_total
    /\ unit.r.read_bytes = 0

\* C6: delta(sample, zero) = sample, accumulate(zero, x) = x and
\* accumulate(x, delta(x, x)) = x.
C6_RoundTrip ==
    /\ (unit.op = "delta" /\ unit.b = TaskStats_default) => unit.r = unit.a
    /\ (unit.op = "accumulate" /\ unit.a = TaskStats_default) => unit.r = unit.b
    /\ unit.op = "round_trip" => unit.r = unit.a

\* the round trip was taken on a record with counters at both ends of u64
C6_Witness ==
    /\ unit.op = "round_trip"
    /\ unit.a.read_bytes = U64Max
    /\ unit.a.blkio_delay_total = 1
    /\ unit.r = unit.a

\* C7: in the first snapshot sent every thread's stats_delta is all-zero
\* and total_io and actual_io are (0, 0).
C7_FirstSnapshotZero ==
    sent = 1 =>
        /\ unwrap(snapshot).total_io = <<0, 0>>
        /\ unwrap(snapshot).actual_io = <<0, 0>>
        /\ \A p \in DOMAIN unwrap(snapshot).processes :
            \A t \in DOMAIN unwrap(snapshot).processes[p].threads :
                ZeroCounters(unwrap(snapshot).processes[p].threads[t].stats_delta)

\* the first snapshot was taken while the kernel counters and the vmstat
\* counters were non-zero
C7_Witness ==
    /\ sent = 1
    /\ last_in.kind = "ok"
    /\ is_some(last_in.vm)
    /\ unwrap(last_in.vm).pgpgin = 1100
    /\ \E p \in DOMAIN unwrap(snapshot).processes :
        \E t \in DOMAIN unwrap(snapshot).processes[p].threads :
            unwrap(snapshot).processes[p].threads[t].stats_total
                = Some(from_kernel_stats(KLarge))

\* C8: on a tick after the first that reads /proc/vmstat, actual_io is
\* ((pgpgin - prev pgpgin) * 4096, (pgpgout - prev pgpgout) * 4096), each
\* difference cut off at zero, and the stored values become the current ones.
C8_ActualIsVmDelta ==
    [][(/\ ticks' = ticks + 1
        /\ last_in'.kind = "ok"
        /\ is_some(last_in'.vm)
        /\ is_some(prev_pgpgin)
        /\ is_some(prev_pgpgout)) =>
            LET now == unwrap(last_in'.vm)
                was_in == unwrap(prev_pgpgin) \div PageSize
                was_out == unwrap(prev_pgpgout) \div PageSize
            IN  /\ unwrap(snapshot').actual_io =
                       <<Max0(now.pgpgin - was_in) * PageSize,
                         Max0(now.pgpgout - was_out) * PageSize>>
                /\ prev_pgpgin' = Some(now.pgpgin * PageSize)
                /\ prev_pgpgout' = Some(now.pgpgout * PageSize)]_vars

\* C9: a tick that cannot read /proc/vmstat publishes actual_io = (0, 0)
\* and leaves the stored pgpgin and pgpgout as they were.
C9_FailedVmstatKeepsPrev ==
    [][(/\ ticks' = ticks + 1
        /\ last_in'.kind = "ok"
        /\ ~is_some(last_in'.vm)) =>
            /\ unwrap(snapshot').actual_io = <<0, 0>>
            /\ prev_pgpgin' = prev_pgpgin
            /\ prev_pgpgout' = prev_pgpgout]_vars

\* C10: after a tick, a process that /proc did not list in that tick is
\* in neither the process map nor the snapshot.
C10_ExitedProcessRemoved ==
    (last_in.kind = "ok" /\ is_some(snapshot)) =>
        /\ DOMAIN processes \subseteq unwrap(last_in.proc)
        /\ DOMAIN unwrap(snapshot).processes \subseteq unwrap(last_in.proc)

Populated(q) ==
    is_some(q.uid) /\ is_some(q.user) /\ is_some(q.prio) /\ is_some(q.cmdline)

\* C11: once uid, user, prio and cmdline of an entry are all Some, none of
\* them changes on a later tick while the entry stays in the process map.
C11_MetadataLatch ==
    [][\A p \in DOMAIN processes \cap DOMAIN processes' :
          Populated(processes[p]) =>
              /\ processes'[p].uid = processes[p].uid
              /\ processes'[p].user = processes[p].user
              /\ processes'[p].prio = processes[p].prio
              /\ processes'[p].cmdline = processes[p].cmdline]_vars

\* C12: once the token is tripped it stays tripped, the scheduler starts no
\* further tick and eventually leaves its loop and drops its sender, and a
\* consumer that holds the receiver gets "closed" once the queue is drained,
\* and not before.
C12_CancelStopsScheduler ==
    /\ [][cancelled => cancelled']_vars
    /\ [][(cancelled /\ pc = "select") => pc' /= "await"]_vars
    /\ cancelled ~> (pc = "done")
    /\ [][(rx = "open" /\ rx' = "closed") => (pc = "done" /\ queue = <<>>)]_vars
    /\ (cancelled /\ rx = "open") ~> (rx /= "open")

\* C13: after the token is tripped no snapshot is given to the channel.
C13_NoSendAfterCancel == [][cancelled => sent' = sent]_vars

\* C14: once the consumer has dropped the receiver the scheduler task
\* eventually terminates.
C14_DroppedReceiverStops == (rx = "dropped") ~> (pc = "done")

\* the worker of the step returned an error or panicked
FailedTick == pc = "await" /\ pc' /= "await" /\ last_in'.kind \in {"err", "panic"}

\* C15: a tick whose worker fails or panics leaves the scheduler in its
\* loop, sends nothing and leaves the process map, the timestamp, the
\* duration and the stored pgpgin and pgpgout as they were; the next tick
\* runs from that state.
C15_FailedTickKeepsState ==
    /\ [][FailedTick =>
             /\ pc' = "select"
             /\ sent' = sent
             /\ queue' = queue
             /\ processes' = processes
             /\ timestamp' = timestamp
             /\ duration' = duration
             /\ prev_pgpgin' = prev_pgpgin
             /\ prev_pgpgout' = prev_pgpgout]_vars
    /\ [][(pc = "select" /\ pc' = "await") =>
             /\ unwrap(worker').processes = processes
             /\ unwrap(worker').timestamp = timestamp
             /\ unwrap(worker').duration = duration
             /\ unwrap(worker').prev_pgpgin = prev_pgpgin
             /\ unwrap(worker').prev_pgpgout = prev_pgpgout]_vars

\* the third tick runs from the state of the first, the second having failed
\* on /proc after reading /proc/vmstat
C15_Witness ==
    /\ pc = "await"
    /\ ticks = 2
    /\ sent = 1
    /\ last_in.kind = "err"
    /\ unwrap(worker).timestamp = 1
    /\ unwrap(worker).prev_pgpgin = Some(1000 * PageSize)
    /\ 1 \in DOMAIN unwrap(worker).processes

\* the queue holds the snapshots sent and not yet received, oldest first
QueueInOrder ==
    /\ \A i \in 1..Len(queue) :
        /\ queue[i].seq = recv_count + i
        /\ i > 1 => queue[i - 1].tick < queue[i].tick
    /\ rx /= "dropped" => recv_count + Len(queue) = sent
    /\ (is_some(current_snapshot) /\ queue /= <<>>) =>
           unwrap(current_snapshot).tick < queue[1].tick

\* C16: the consumer receives the snapshots in the order of their ticks,
\* each once and none left out, however far it lags behind; at most one
\* worker is in flight, and it runs from the state the last successful run
\* left.
C16_SnapshotsInTickOrder ==
    /\ [](QueueInOrder /\ (pc = "await" <=> is_some(worker)))
    /\ [][recv_count' /= recv_count =>
             /\ recv_count' = recv_count + 1
             /\ unwrap(current_snapshot').seq = recv_count'
             /\ is_some(current_snapshot) =>
                    unwrap(current_snapshot).tick < unwrap(current_snapshot').tick]_vars
    /\ [][(pc = "select" /\ pc' = "await") =>
             /\ unwrap(worker').processes = processes
             /\ unwrap(worker').timestamp = timestamp
             /\ unwrap(worker').prev_pgpgin = prev_pgpgin]_vars
    /\ [][(pc = "await" /\ pc' = "await") =>
             (processes' = processes /\ timestamp' = timestamp)]_vars

\* the consumer has taken the first snapshot and lags two behind; a tick
\* between those two failed
C16_Witness ==
    /\ rx = "open"
    /\ recv_count = 1
    /\ Len(queue) = 2
    /\ unwrap(current_snapshot).tick = 1
    /\ queue[1].snapshot /= queue[2].snapshot
    /\ queue[2].seq = 3

NoFilters == pids = {} /\ uids = {}

\* the TIDs that /proc/<tgid>/task lists in the last tick
Listed(p) ==
    IF is_some(last_in.tasks[p]) THEN unwrap(last_in.tasks[p]) ELSE {}

\* C17: in thread mode, after a tick every TID listed for an enumerated
\* process has its own entry, keyed by the TID, with pid the owning TGID,
\* and every entry owns exactly one thread.
C17_ThreadModeEntries ==
    (last_in.kind = "ok" /\ ~show_processes /\ NoFilters) =>
        /\ \A p \in unwrap(last_in.proc) : \A t \in Listed(p) \cup {p} :
               /\ t \in DOMAIN processes
               /\ processes[t].pid = p
        /\ \A k \in DOMAIN processes :
               Cardinality(DOMAIN processes[k].threads) = 1

\* the threads that entry p had before the step
OldThreads(p) ==
    IF p \in DOMAIN processes THEN DOMAIN processes[p].threads ELSE {}

\* the thread list that the step's tick used for p in process mode
UsedTids(p) ==
    IF is_some(last_in'.tasks[p]) THEN unwrap(last_in'.tasks[p]) ELSE {p}

ProcessModeTick ==
    ticks' = ticks + 1 /\ last_in'.kind = "ok" /\ show_processes /\ NoFilters

AllowedEntries(map) ==
    /\ pids /= {} => DOMAIN map \subseteq pids
    /\ uids /= {} => \A k \in DOMAIN map :
                        is_some(map[k].uid) /\ unwrap(map[k].uid) \in uids

\* C19: with a non-empty PID allow-list every entry of the process list and
\* of every snapshot has its id in the list; with a non-empty UID allow-list
\* every entry's owner uid is in the list; empty lists drop no entry.
C19_AllowLists ==
    /\ AllowedEntries(processes)
    /\ is_some(snapshot) => AllowedEntries(unwrap(snapshot).processes)
    /\ (last_in.kind = "ok" /\ NoFilters) =>
           \A p \in unwrap(last_in.proc) :
               (~show_processes \/ Listed(p) /= {} \/ ~is_some(last_in.tasks[p]))
                   => p \in DOMAIN processes

\* an entry owned by uid 1000 passed the UID allow-list
C19_Witness ==
    /\ uids = {1000} /\ pids = {1}
    /\ last_in.kind = "ok" /\ unwrap(last_in.proc) = {1}
    /\ is_some(snapshot)
    /\ 1 \in DOMAIN unwrap(snapshot).processes
    /\ unwrap(snapshot).processes[1].uid = Some(1000)

\* C20: for class in {RealTime, BestEffort, Idle} and level in 0..=7,
\* from_raw(new(class, level).to_raw()) has the same class and level, and
\* the raw word holds the class from bit 13 upward and the level in its low
\* 13 bits.
C20_IoprioRawRoundTrip ==
    (/\ unit.op = "ioprio_raw"
     /\ unit.io.class \in {"RealTime", "BestEffort", "Idle"}
     /\ unit.io.data \in 0..7) =>
        /\ unit.io_r = unit.io
        /\ unit.raw \div 8192 = class_as_u32(unit.io.class)
        /\ unit.raw % 8192 = unit.io.data

\* idle/7 went through the raw word 3 * 8192 + 7
C20_Witness ==
    /\ unit.op = "ioprio_raw"
    /\ unit.io = Ioprio_new("Idle", 7)
    /\ unit.raw = 24583
    /\ unit.io_r = Ioprio_new("Idle", 7)

\* the sum, capped at u64::MAX, of counter c of the stats_delta of the
\* threads of entry q that are in S
SampledThreadSum(q, S, c) ==
    Capped(SumOver([t \in DOMAIN q.threads \cap S |-> q.threads[t].stats_delta[c]],
                   DOMAIN q.threads \cap S))

\* C27, for the entry of process p across one tick
FailedSampleStep(p) ==
    LET before == IF p \in DOMAIN processes THEN processes[p].stats_accum
                  ELSE [c \in Counters |-> 0]
        after == processes'[p]
    IN  (last_in'.kind = "ok" /\ p \in unwrap(last_in'.proc)
            /\ p \in DOMAIN processes') =>
            \A c \in ByteCounters :
                /\ after.stats_delta[c] =
                       SampledThreadSum(after, DOMAIN last_in'.stats, c)
                /\ after.stats_accum[c] =
                       Capped(before[c]
                              + SampledThreadSum(after, DOMAIN last_in'.stats, c))

\* C27: in every tick a process's stats_delta is the sum of the deltas of
\* its threads sampled in that tick, a thread whose sample failed counting
\* as zero, and that sum is what stats_accum grows by.
C27_FailedSampleAddsNothing == [][\A p \in Pids : FailedSampleStep(p)]_vars

\* the thread t of p was there before the step and got no record in it
Unsampled(p, t) ==
    /\ HasThread(processes, p, t)
    /\ HasThread(processes', p, t)
    /\ ~(last_in'.kind = "ok" /\ t \in DOMAIN last_in'.stats)

\* the sum of f[x] over the x of S in u64 arithmetic that wraps
WrappedSum(n) == n % (U64Max + 1)

\* C28: a thread that gets no record in a tick keeps its stats_total, and
\* the next record it gets is diffed against that; the tick's total_io
\* holds the deltas of the sampled threads and nothing else.
C28_FailedSampleKeepsTotal ==
    /\ [][\A p \in Pids : \A t \in TaskTids(p) :
            /\ Unsampled(p, t) =>
                   processes'[p].threads[t].stats_total =
                       processes[p].threads[t].stats_total
            /\ (/\ HasThread(processes, p, t)
                /\ HasThread(processes', p, t)
                /\ last_in'.kind = "ok"
                /\ t \in DOMAIN last_in'.stats
                /\ is_some(processes[p].threads[t].stats_total)) =>
                   \A c \in Counters :
                       processes'[p].threads[t].stats_delta[c] =
                           Max0(last_in'.stats[t][c]
                                - unwrap(processes[p].threads[t].stats_total)[c])]_vars
    /\ []((last_in.kind = "ok" /\ is_some(snapshot)) =>
            /\ unwrap(snapshot).total_io[1] =
                   WrappedSum(SampledSum(unwrap(snapshot), "read_bytes"))
            /\ unwrap(snapshot).total_io[2] =
                   WrappedSum(SampledSum(unwrap(snapshot), "write_bytes")))

\* in process mode thread 3 got no record in the last tick and keeps the
\* total of its last sample, while thread 1 was sampled and alone makes up
\* total_io
C28_Witness ==
    /\ last_in.kind = "ok"
    /\ Sampled = {1}
    /\ HasThread(processes, 1, 3)
    /\ processes[1].threads[3].stats_total = Some(from_kernel_stats(KSmall))
    /\ processes[1].threads[1].stats_delta.read_bytes = U64Max - 4096
    /\ unwrap(snapshot).total_io = <<U64Max - 4096, 4096>>

\* C29: no tick panics, and total_io and the stored pgpgin and pgpgout are
\* the sums and products capped at u64::MAX.
C29_ArithmeticSaturates ==
    /\ last_in.kind /= "panic"
    /\ (last_in.kind = "ok" /\ is_some(snapshot)) =>
           /\ unwrap(snapshot).total_io[1] =
                  Capped(SampledSum(unwrap(snapshot), "read_bytes"))
           /\ unwrap(snapshot).total_io[2] =
                  Capped(SampledSum(unwrap(snapshot), "write_bytes"))
           /\ is_some(last_in.vm) =>
                  /\ prev_pgpgin = Some(Capped(unwrap(last_in.vm).pgpgin * PageSize))
                  /\ prev_pgpgout = Some(Capped(unwrap(last_in.vm).pgpgout * PageSize))

\* a class, a '/' and digits that make a number in 0..=7
LevelForms ==
    {c \o <<"/">> \o l : c \in {<<"r", "t">>, <<"b", "e">>},
                          l \in {d \in StringsUpTo({"0", "3", "7", "8"}, MaxLevelLen) :
                                   d /= <<>> /\ digits_value(d) <= 7}}

\* C21: from_string(s) succeeds exactly when s is "idle" or is "rt/N" or
\* "be/N" with N the digits of a level in 0..=7.
C21_FromStringAccepts ==
    unit.op = "from_string" =>
        (is_some(unit.parsed) <=> unit.s \in {<<"i", "d", "l", "e">>} \cup LevelForms)

\* C22: from_string("idle") is idle/0 and idle/0 displays as "idle"; rt/N
\* and be/N with N in 0..=7 display as "rt/N" and "be/N", and from_string
\* of the display gives the class and level back.
C22_IoprioStringRoundTrip ==
    /\ (unit.op = "from_string" /\ unit.s = <<"i", "d", "l", "e">>) =>
           unit.parsed = Some(Ioprio_new("Idle", 0))
    /\ (unit.op = "ioprio_string" /\ unit.io = Ioprio_new("Idle", 0)) =>
           (unit.shown = <<"i", "d", "l", "e">> /\ unit.parsed = Some(unit.io))
    /\ (/\ unit.op = "ioprio_string"
        /\ unit.io.class \in {"RealTime", "BestEffort"}
        /\ unit.io.data \in 0..7) =>
           /\ unit.shown = (IF unit.io.class = "RealTime" THEN <<"r", "t", "/">>
                            ELSE <<"b", "e", "/">>) \o <<DigitChars[unit.io.data + 1]>>
           /\ unit.parsed = Some(unit.io)

\* rt/7 was displayed and parsed back
C22_Witness ==
    /\ unit.op = "ioprio_string"
    /\ unit.io = Ioprio_new("RealTime", 7)
    /\ unit.shown = <<"r", "t", "/", "7">>
    /\ unit.parsed = Some(Ioprio_new("RealTime", 7))

\* the scheduler-derived priority of the claim: the class by policy, the
\* level clamp((nice + 20) / 5, 0, 7)
DerivedIoprio ==
    Ioprio_new(IF unit.policy \in {SCHED_FIFO, SCHED_RR} THEN "RealTime"
               ELSE IF unit.policy = SCHED_IDLE THEN "Idle"
               ELSE "BestEffort",
               clamp(div_trunc(unit.nice + 20, 5), 0, 7))

\* the syscall succeeded with a class other than None
ExplicitIoprio == unit.result >= 0 /\ (unit.result \div 8192) % 8 \in 1..3

\* the decoded syscall word
DecodedIoprio == Ioprio_new(IoprioClass_classes[(unit.result \div 8192) % 8],
                            unit.result % 8192)

\* C23 as stated: get_ioprio returns the decoded word when the syscall
\* succeeds with a class other than None, and the scheduler-derived
\* priority in every other case.
C23_GetIoprioFallsBack ==
    unit.op = "get_ioprio" =>
        unit.got = Some(IF ExplicitIoprio THEN DecodedIoprio ELSE DerivedIoprio)

\* C23, amended: as stated, but when the fallback is taken and
\* sched_getscheduler fails, get_ioprio returns an error; a successful
\* result never has class None, and normal policy with nice 0 gives be/4.
C23_GetIoprioFallsBackOrFails ==
    unit.op = "get_ioprio" =>
        /\ unit.got = IF ExplicitIoprio THEN Some(DecodedIoprio)
                      ELSE IF unit.policy < 0 THEN None
                      ELSE Some(DerivedIoprio)
        /\ is_some(unit.got) => unwrap(unit.got).class /= "None"
        /\ (~ExplicitIoprio /\ unit.policy = 0 /\ unit.nice = 0) =>
               unit.got = Some(Ioprio_new("BestEffort", 4))

\* the syscall gave a word of class None, the policy is normal, nice is 0
C23_Witness ==
    /\ unit.op = "get_ioprio"
    /\ unit.result = 3
    /\ unit.policy = 0
    /\ unit.nice = 0
    /\ unit.got = Some(Ioprio_new("BestEffort", 4))

\* C30: for nice in -20..=19 the priority string cached on an entry is
\* "be/N" with N = clamp((nice + 20) / 5, 0, 7).
C30_PrioFromNice ==
    (unit.op = "update_prio" /\ unit.nice \in -20..19) =>
        unit.prio = Some(<<"b", "e", "/">>
                         \o format_u32(clamp(div_trunc(unit.nice + 20, 5), 0, 7)))

\* a sample with a block-I/O delay has been converted
DelayConverted ==
    \E c \in Converters : \E i \in 1..Len(conv[c].done) : conv[c].done[i] /= 0

\* C24: the flag is false until a sample with a non-zero blkio_delay_total
\* is converted, is true once the conversion of such a sample is over, and
\* once true stays true, to every reader too, however the conversions and
\* the reads interleave.
C24_DelayAcctLatch ==
    /\ [](HAS_DELAY_ACCT <=> DelayConverted)
    /\ [][HAS_DELAY_ACCT => HAS_DELAY_ACCT']_vars
    /\ [](\A i, j \in 1..Len(flag_reads) : (i < j /\ flag_reads[i]) => flag_reads[j])

\* thread 2 loaded the flag as false, thread 1 then converted a sample with
\* a delay, a reader saw the flag go from false to true, and thread 2 has
\* its store of a sample without delay still to do
C24_Witness ==
    /\ HAS_DELAY_ACCT
    /\ flag_reads = <<FALSE, TRUE>>
    /\ conv[1].done = <<1000000>>
    /\ conv[2].pc = "loaded"
    /\ conv[2].seen = FALSE
    /\ conv[2].blkio = 0

\* a call of ProcCache::read has just returned
CacheReadStep == cache_ret' /= cache_ret

\* the entry the call found for its path
FoundEntry == cache[cache_ret'.path]

\* the call returned the entry's content, left the cache alone and did not
\* go to the file
ServedFromCache ==
    /\ cache_ret'.result = io_Ok(FoundEntry.content)
    /\ ~cache_ret'.from_disk
    /\ cache' = cache

\* the call went to the file and, the file being readable, replaced the
\* entry by the file's content stamped with the time of the call
ReadAgain ==
    /\ cache_ret'.from_disk
    /\ disk[cache_ret'.path] /= None =>
          /\ cache_ret'.result = io_Ok(disk[cache_ret'.path][1])
          /\ cache'[cache_ret'.path].content = disk[cache_ret'.path][1]
          /\ cache'[cache_ret'.path].timestamp = clock

\* C25: ProcCache::read returns the cached content without reading the file
\* for an entry cached as Static at any later time, and for an entry cached
\* as Refresh(d) as long as the time since it was cached does not exceed d;
\* once that time exceeds d it reads the file again and replaces the entry
\* by the new content with a new timestamp; two consecutive Static reads of
\* one path that succeed return equal content.
C25_CacheReadPolicy ==
    [][CacheReadStep =>
        /\ (cache_ret'.path \in DOMAIN cache
             /\ FoundEntry.ttl.kind = "Static") => ServedFromCache
        /\ (cache_ret'.path \in DOMAIN cache
             /\ FoundEntry.ttl.kind = "Refresh"
             /\ elapsed(FoundEntry, clock) <= FoundEntry.ttl.d)
                => ServedFromCache
        /\ (cache_ret'.path \in DOMAIN cache
             /\ FoundEntry.ttl.kind = "Refresh"
             /\ elapsed(FoundEntry, clock) > FoundEntry.ttl.d) => ReadAgain
        /\ (cache_ret.path = cache_ret'.path
             /\ cache_ret.ttl = "Static" /\ cache_ret'.ttl = "Static"
             /\ cache_ret.result.ok /\ cache_ret'.result.ok)
                => cache_ret'.result = cache_ret.result]_vars

\* -n N with N >= 1 was given
Limited == is_some(main.iterations) /\ unwrap(main.iterations) >= 1

\* the loop has ended, and not on the user's key
EndedUnasked == main.pc = "done" /\ main.exit_by /= "key"

\* N passes were made and the loop ended before a further sleep (batch), or
\* N data updates were drawn (interactive)
ExactlyLimit ==
    /\ main.mode = "batch" =>
          /\ main.refreshes = unwrap(main.iterations)
          /\ main.sleeps = unwrap(main.iterations) - 1
    /\ main.mode = "interactive" => main.draws = unwrap(main.iterations)

\* C26: with -n N, N >= 1, batch mode performs exactly N refresh ticks and
\* then terminates without a further sleep, and interactive mode exits
\* after exactly N data-update draws; without -n neither mode terminates
\* on its own.
C26_IterationLimit ==
    /\ (Limited /\ EndedUnasked) => ExactlyLimit
    /\ main.iterations = None => ~EndedUnasked

\* C26 as the code has it: with -n N, N >= 1, neither loop makes more than
\* N passes; the loop ends on the limit exactly when the N-th pass is
\* complete, after N refresh ticks and N - 1 sleeps in batch mode and N
\* data-update draws in interactive mode, and it ends earlier only on a
\* failed refresh, a failed write to stdout, a failed draw, an error event
\* or the quit key; without -n it ends only on one of these; and the batch
\* loop with a limit always ends.
C26_IterationLimitOrFailure ==
    /\ [](Limited =>
            /\ main.refreshes <= unwrap(main.iterations)
            /\ main.draws <= unwrap(main.iterations)
            /\ main.sleeps < unwrap(main.iterations)
            /\ main.exit_by = "limit" => ExactlyLimit
            /\ (main.mode = "batch"
                 /\ main.refreshes = unwrap(main.iterations))
                    => main.pc = "done"
            /\ (main.mode = "interactive"
                 /\ main.draws = unwrap(main.iterations))
                    => (main.pc = "done" /\ main.exit_by = "limit")
            /\ main.pc = "done" =>
                  main.exit_by \in {"limit", "error", "stdout",
                                    "event_error", "key"})
    /\ [](main.iterations = None =>
            (main.pc = "done" =>
               main.exit_by \in {"error", "stdout", "event_error", "key"}))
    /\ (main.mode = "batch" /\ Limited) ~> (main.pc = "done")

\* a batch run with -n 2 that has ended on the limit, and a third pass is
\* still within the bound
C26_Witness ==
    /\ main.mode = "batch"
    /\ main.iterations = Some(2)
    /\ main.exit_by = "limit"
    /\ main.refreshes = 2
    /\ main.sleeps = 1
    /\ ticks < MaxTicks

\* the scheduler awaits its worker while the token is tripped
TickInFlightCancelled == pc = "await" /\ cancelled

\* the scheduler's match on the worker's result: the worker is gone, the
\* tick is counted, and on Ok the result is the scheduler's state and the
\* snapshot given to tx.send
ResultTakenOver ==
    /\ worker' = None
    /\ ticks' = (IF ticks < MaxTicks THEN ticks + 1 ELSE ticks)
    /\ last_in'.kind = "ok" =>
          /\ is_some(snapshot')
          /\ unwrap(snapshot').processes = processes'
          /\ unwrap(snapshot').duration = duration'
          /\ sent' = sent + 1
          /\ pc' = (IF rx = "dropped" THEN "done" ELSE "select")
    /\ last_in'.kind /= "ok" =>
          /\ pc' = "select"
          /\ UNCHANGED <<processes, timestamp, duration, prev_pgpgin,
                         prev_pgpgout, sent>>

\* C31: a tick in progress when the cancellation token is tripped runs to
\* completion: the worker is not given up, the scheduler leaves its await
\* only by taking the worker's result over, it leaves its loop on the
\* token only from the select!, and it does leave after such a tick.
C31_InFlightTickCompletes ==
    /\ [][(TickInFlightCancelled /\ pc' = "await") => worker' = worker]_vars
    /\ [][(TickInFlightCancelled /\ pc' /= "await") => ResultTakenOver]_vars
    /\ [][(pc = "await" /\ pc' = "done") =>
            (rx = "dropped" /\ last_in'.kind = "ok" /\ sent' = sent + 1)]_vars
    /\ TickInFlightCancelled ~> (pc = "done" /\ worker = None)

\* the second tick is with its worker, the token is tripped and the first
\* tick's snapshot is still queued
C31_Witness ==
    /\ TickInFlightCancelled
    /\ is_some(worker)
    /\ ticks = 1
    /\ sent = 1
    /\ Len(queue) = 1
    /\ rx = "open"

\* the workers inside get_task_stats, or past it with the guard not yet
\* dropped
Querying == {g \in DOMAIN sched : sched[g].wpc = "query"}

\* C32: no two workers are in a kernel-stats query on the shared
\* connection at the same time, and a worker in a query holds the
\* connection's lock, also while the scheduler of the old mode and the one
\* spawned on a mode toggle both have a worker running.
C32_QueriesUnderLock ==
    /\ Cardinality(Querying) <= 1
    /\ \A g \in Querying : conn_lock = g
    /\ conn_lock /= 0 => conn_lock \in Querying

\* the worker of the old mode's scheduler is in a query while the worker of
\* the new one waits for the lock
C32_Witness ==
    /\ DOMAIN sched = {1, 2}
    /\ sched[1].cancelled
    /\ sched[1].wpc = "query"
    /\ sched[2].wpc = "lock"
    /\ conn_lock = 1

\* the stream spawned last
NewestStream == Cardinality(DOMAIN sched)

C33_TaskStatsOutcomes ==
    unit.op = "get_task_stats" =>
        /\ unit.reply.kind = "ok" =>
              unit.task_stats
                = [ok |-> TRUE, value |-> Some(from_kernel_stats(unit.reply.stats))]
        /\ unit.reply.kind = "esrch" =>
              unit.task_stats = [ok |-> TRUE, value |-> None]
        /\ unit.reply.kind = "transport" => ~unit.task_stats.ok

\* the basename rule: a token without '/' as it is, a token with a ':'
\* before its first '/' as it is, any other token from after its last '/'
BasenameRule(first) ==
    IF ~is_some(find(first, "/")) THEN first
    ELSE IF is_some(find(first, ":"))
            /\ unwrap(find(first, ":")) < unwrap(find(first, "/"))
    THEN first
    ELSE SubSeq(first, unwrap(rfind(first, "/")) + 1, Len(first))

\* the first token by the rule, then the other non-empty tokens, each after
\* a single space
CmdlineRule(tokens) ==
    IF Len(non_empty(tokens)) > 1
    THEN BasenameRule(non_empty(tokens)[1]) \o <<" ">>
         \o join(Tail(non_empty(tokens)))
    ELSE BasenameRule(non_empty(tokens)[1])

\* C34: the command line shown has the first token by the basename rule (no
\* '/': unchanged; a ':' before the first '/': verbatim; else everything up
\* to the last '/' removed) and the remaining non-empty tokens appended
\* after single spaces, in ProcReader::parse_cmdline and in
\* ProcessInfo::compute_cmdline.
C34_CmdlineBasename ==
    unit.op = "cmdline" =>
        /\ unit.cmd_reader = CmdlineRule(unit.tokens)
        /\ unit.cmd_process = CmdlineRule(unit.tokens)

\* the lines of the status file with the given key
LinesOf(key) == {i \in 1..Len(unit.lines) : unit.lines[i].key = Some(key)}

\* the last line with the given key
LastOf(key) == unit.lines[CHOOSE i \in LinesOf(key) : \A j \in LinesOf(key) : j <= i]

\* an id line is well-formed when the first field of its value is an i32
IdLineOk(line) == line.fields /= <<>> /\ is_some(parse_i32(line.fields[1]))

\* the Name, Tgid and Pid lines are all present and well-formed
StatusLinesOk ==
    /\ LinesOf("Name") /= {}
    /\ LinesOf("Tgid") /= {}
    /\ LinesOf("Pid") /= {}
    /\ \A i \in LinesOf("Tgid") \cup LinesOf("Pid") : IdLineOk(unit.lines[i])

\* the values of the three lines
StatusOfLines ==
    [name |-> join(LastOf("Name").fields),
     tgid |-> unwrap(parse_i32(LastOf("Tgid").fields[1])),
     pid |-> unwrap(parse_i32(LastOf("Pid").fields[1]))]

\* C35: ProcStatus::parse returns a status exactly when the Name, Tgid and
\* Pid lines are all present and well-formed, then with exactly the values
\* of the three lines, and reports a failure otherwise.
C35_StatusParse ==
    unit.op = "parse_status" =>
        /\ is_some(unit.status) <=> StatusLinesOk
        /\ is_some(unit.status) => unwrap(unit.status) = StatusOfLines

\* C35 as the code has it: a status is returned exactly when the three
\* lines are present and well-formed and, besides, the name is not empty and
\* neither id is 0; it then holds the values of the three lines (of the last
\* line of each key).
C35_StatusParseNonZero ==
    unit.op = "parse_status" =>
        /\ is_some(unit.status) <=>
              /\ StatusLinesOk
              /\ StatusOfLines.name /= <<>>
              /\ StatusOfLines.tgid /= 0
              /\ StatusOfLines.pid /= 0
        /\ is_some(unit.status) => unwrap(unit.status) = StatusOfLines

\* a file as that of test_parse_status, its Pid line with a second field
C35_Witness ==
    /\ unit.op = "parse_status"
    /\ unit.lines = <<StatusLine(Some("Name"), <<<<"t">>>>),
                      StatusLine(Some("Tgid"), <<<<"5">>>>),
                      StatusLine(Some("Pid"), <<<<"7">>, <<"9">>>>)>>
    /\ unit.status = Some([name |-> <<"t">>, tgid |-> 5, pid |-> 7])

\* the elements of a sequence
Elems(q) == {q[i] : i \in 1..Len(q)}

\* C40: for either value of has_delay_acct and every available column c,
\* the left arrow undoes the right arrow and the right arrow undoes the
\* left one, the right arrow pressed once for every available column comes
\* back to c, and every result is an available column; a column that is
\* not available goes to Pid in both directions
C40_CycleRoundTrip ==
    unit.op = "cycle" =>
        LET available == Elems(available_columns(unit.has_delay_acct))
        IN  IF unit.column \in available
            THEN /\ unit.there_and_back = unit.column
                 /\ unit.back_and_there = unit.column
                 /\ unit.around = unit.column
                 /\ unit.forward \in available
                 /\ unit.backward \in available
            ELSE /\ unit.forward = "Pid"
                 /\ unit.backward = "Pid"

\* the right arrow on the last column without delay accounting wraps
C40_Witness ==
    /\ unit.op = "cycle"
    /\ unit.column = "Command"
    /\ ~unit.has_delay_acct
    /\ unit.forward = "Pid"
    /\ unit.backward = "Write"

\* C36: a draw of the interactive mode made when HAS_DELAY_ACCT is true is
\* given has_delay_acct = true
C36_DrawSeesLatchedFlag ==
    (is_some(ui.last_draw) /\ unwrap(ui.last_draw).latched)
        => unwrap(ui.last_draw).has_delay_acct

\* C37: no draw made while the UI is paused shows a snapshot that came in
\* during that pause
C37_PausedDrawHolds ==
    (is_some(ui.last_draw) /\ unwrap(ui.last_draw).paused)
        => ~unwrap(ui.last_draw).held

\* C39: from UIState::default() on and after any Left, Right, Home and End
\* keys the sort column is one of available_columns(has_delay_acct)
C39_SortColumnAvailable ==
    ui.started
        => ui.state.sort_column \in Elems(available_columns(ui.has_delay_acct))

====
